---------------------------- MODULE Spec2Model ----------------------------
(***************************************************************************)
(* A model of the markdown-to-HTML converter of manufosela/utils           *)
(* (@manufosela/rich-markdown-to-html): parse, parseInline, escape,        *)
(* generateTOC and renderTOC.                                              *)
(*                                                                         *)
(* A JavaScript string is a sequence of one-character strings.  Every      *)
(* String.prototype.replace(/regex/g, ...) of the source is an operator    *)
(* that scans the text from left to right as the regex engine does: at     *)
(* each position the pattern is tried (greedy and lazy quantifiers, look-  *)
(* behind, backtracking where it can change the outcome), a match is       *)
(* replaced and the scan goes on after it.                                 *)
(***************************************************************************)
EXTENDS Integers, Sequences, FiniteSets, TLC

\* the markdown converter: the call, the text parse works on, the statement reached
VARIABLES fn, arg, options, text, pc, stages, result
\* the timing functions: the clock and the pending timeouts of the host, the closures
\* of the functions made by debounce, throttle and rateLimit, the calls of func, the
\* calls of the function made, and what the last of these gave back
VARIABLES now, timers, debounced, rateLimited, invocations, callsMade, returned

\* the storage helper: the fields of the instance and the storage of the browser
VARIABLES helper, localStorage
\* the event emitter: the fields of the instance and the calls of emit that are running
VARIABLES emitter, emitting

markdownVars == <<fn, arg, options, text, pc, stages, result>>
timingVars == <<now, timers, debounced, rateLimited, invocations, callsMade, returned>>
storageVars == <<helper, localStorage>>
emitterVars == <<emitter, emitting>>

vars == <<markdownVars, timingVars, storageVars, emitterVars>>

\* what a step of one package leaves alone: the state of the other packages, and for
\* the storage helper, which has the clock, the calls made and the value given back in
\* common with the timing functions, the rest of their state
notMarkdown == <<timingVars, storageVars, emitterVars>>
notTiming == <<markdownVars, storageVars, emitterVars>>
notStorage == <<markdownVars, timers, debounced, rateLimited, invocations, emitterVars>>
notEmitter == <<markdownVars, now, timers, debounced, rateLimited, returned, storageVars>>

(***************************************************************************)
(* Characters and character classes                                        *)
(***************************************************************************)
NL == "\n"
CR == "\r"

\* Unicode characters the typographer emits
LDQUO == "u201c"
RDQUO == "u201d"
LSQUO == "u2018"
RSQUO == "u2019"
MDASH == "u2014"
NDASH == "u2013"
HELLIP == "u2026"

\* the backquote (grave accent), which a TLA+ string cannot hold
TICK == "grave"

LowerLetters == <<"a","b","c","d","e","f","g","h","i","j","k","l","m","n","o","p","q","r","s","t","u","v","w","x","y","z">>
UpperLetters == <<"A","B","C","D","E","F","G","H","I","J","K","L","M","N","O","P","Q","R","S","T","U","V","W","X","Y","Z">>
Digits == {"0", "1", "2", "3", "4", "5", "6", "7", "8", "9"}

Range(s) == {s[i] : i \in 1..Len(s)}

\* \w
IsWord(c) == c \in Range(LowerLetters) \cup Range(UpperLetters) \cup Digits \cup {"_"}
\* \s
IsSpace(c) == c \in {" ", "\t", NL, CR, "\f"}
\* \d
IsDigit(c) == c \in Digits
\* a line terminator: what . does not match, and where ^ and $ match under /m
IsLineEnd(c) == c \in {NL, CR}
\* .
IsDot(c) == ~IsLineEnd(c)

\* String.prototype.toLowerCase, per character
LowerChar(c) ==
  IF c \in Range(UpperLetters)
    THEN LowerLetters[CHOOSE i \in 1..26 : UpperLetters[i] = c]
    ELSE c

toLowerCase(s) == [i \in 1..Len(s) |-> LowerChar(s[i])]

(***************************************************************************)
(* String primitives                                                       *)
(***************************************************************************)
\* s.slice(i-1, j-1): the characters at positions i..j-1
Slice(s, i, j) == SubSeq(s, i, j - 1)

\* whether the literal lit stands at position i of s
HasAt(s, i, lit) ==
  /\ i >= 1
  /\ i + Len(lit) - 1 <= Len(s)
  /\ \A k \in 1..Len(lit) : s[i + k - 1] = lit[k]

\* the same, ignoring letter case (the /i flag)
HasAtCI(s, i, lit) ==
  /\ i >= 1
  /\ i + Len(lit) - 1 <= Len(s)
  /\ \A k \in 1..Len(lit) : LowerChar(s[i + k - 1]) = LowerChar(lit[k])

\* the first position >= i whose character is not in the class C, Len(s)+1 if none:
\* the end of the greedy run C* tried at i
RunEnd(s, i, C(_)) ==
  IF \E j \in i..Len(s) : ~C(s[j])
    THEN CHOOSE j \in i..Len(s) : ~C(s[j]) /\ \A k \in i..(j - 1) : C(s[k])
    ELSE Len(s) + 1

\* the first position >= i where lit stands, 0 if none
IndexOf(s, lit, i) ==
  IF \E j \in i..Len(s) : HasAt(s, j, lit)
    THEN CHOOSE j \in i..Len(s) : HasAt(s, j, lit) /\ \A k \in i..(j - 1) : ~HasAt(s, k, lit)
    ELSE 0

IndexOfCI(s, lit, i) ==
  IF \E j \in i..Len(s) : HasAtCI(s, j, lit)
    THEN CHOOSE j \in i..Len(s) : HasAtCI(s, j, lit) /\ \A k \in i..(j - 1) : ~HasAtCI(s, k, lit)
    ELSE 0

\* s.includes(lit)
Includes(s, lit) == \E j \in 1..Len(s) : HasAt(s, j, lit)

\* s.startsWith(lit)
StartsWith(s, lit) == HasAt(s, 1, lit)

\* String.prototype.trim
trim(s) ==
  IF \A i \in 1..Len(s) : IsSpace(s[i])
    THEN <<>>
    ELSE LET a == CHOOSE i \in 1..Len(s) : ~IsSpace(s[i]) /\ \A k \in 1..(i - 1) : IsSpace(s[k])
             b == CHOOSE i \in 1..Len(s) : ~IsSpace(s[i]) /\ \A k \in (i + 1)..Len(s) : IsSpace(s[k])
         IN  SubSeq(s, a, b)

\* whether position i is the start of a line (^ under /m)
AtLineStart(s, i) == i = 1 \/ (i >= 2 /\ i <= Len(s) + 1 /\ IsLineEnd(s[i - 1]))

\* whether position i is the end of a line ($ under /m)
AtLineEnd(s, i) == i = Len(s) + 1 \/ (i >= 1 /\ i <= Len(s) /\ IsLineEnd(s[i]))

\* the end of the line that holds position i: where a greedy .* or .+ tried at i stops
EndOfLine(s, i) == RunEnd(s, i, IsDot)

\* the concatenation of the strings pieces[a..b] (by halves, to keep the evaluation
\* shallow)
RECURSIVE ConcatRange(_, _, _)
ConcatRange(pieces, a, b) ==
  IF a > b THEN <<>>
  ELSE IF a = b THEN pieces[a]
  ELSE LET m == (a + b) \div 2
       IN  ConcatRange(pieces, a, m) \o ConcatRange(pieces, m + 1, b)

\* the concatenation of a sequence of strings
Concat(pieces) == ConcatRange(pieces, 1, Len(pieces))

\* pieces.join(sep)
Join(pieces, sep) ==
  Concat([k \in 1..Len(pieces) |-> IF k = 1 THEN pieces[k] ELSE sep \o pieces[k]])

\* array.filter(keep)
FilterSeq(xs, Keep(_)) ==
  Concat([k \in 1..Len(xs) |-> IF Keep(xs[k]) THEN <<xs[k]>> ELSE <<>>])

Min(S) == CHOOSE x \in S : \A y \in S : x <= y
Max(S) == CHOOSE x \in S : \A y \in S : x >= y

\* text.replace(/regex/g, replacer): Match(s, i) is the position after the match
\* the regex finds at i (0: no match there), Repl(s, i, e) what replaces s[i..e-1].
\* The scan takes the leftmost match at or after the current position and goes on
\* after its end.  No regex of the source matches the empty string.
ReplaceAll(s, Match(_, _), Repl(_, _, _)) ==
  LET found == {j \in 1..Len(s) : Match(s, j) > j}
      RECURSIVE go(_)
      go(i) ==
        IF \A j \in found : j < i THEN Slice(s, i, Len(s) + 1)
        ELSE LET j == Min({k \in found : k >= i})
                 e == Match(s, j)
             IN  Slice(s, i, j) \o Repl(s, j, e) \o go(e)
  IN  go(1)

\* the matches of the global regex, as <<start, end>> pairs in order
\* (RegExp.prototype.exec in a loop)
MatchesOf(s, Match(_, _)) ==
  LET found == {j \in 1..Len(s) : Match(s, j) > j}
      RECURSIVE go(_)
      go(i) ==
        IF \A j \in found : j < i THEN <<>>
        ELSE LET j == Min({k \in found : k >= i})
                 e == Match(s, j)
             IN  <<<<j, e>>>> \o go(e)
  IN  go(1)

\* s.split(sep) for a one-character separator: at least one piece
SplitOn(s, c) ==
  LET at == {i \in 1..Len(s) : s[i] = c}
      RECURSIVE go(_)
      go(i) ==
        IF \A j \in at : j < i THEN <<Slice(s, i, Len(s) + 1)>>
        ELSE LET k == Min({j \in at : j >= i})
             IN  <<Slice(s, i, k)>> \o go(k + 1)
  IN  go(1)

\* 'lit'.repeat(n): a negative count raises a RangeError, which callers test first
RECURSIVE Repeat(_, _)
Repeat(lit, n) == IF n <= 0 THEN <<>> ELSE lit \o Repeat(lit, n - 1)

\* the decimal digit of a heading level
Digitchar(n) == <<"0", "1", "2", "3", "4", "5", "6", "7", "8", "9">>[n + 1]

(***************************************************************************)
(* escapeHtml and slugify                                                  *)
(***************************************************************************)
EscapeChar(c) ==
  CASE c = "&" -> <<"&","a","m","p",";">>
    [] c = "<" -> <<"&","l","t",";">>
    [] c = ">" -> <<"&","g","t",";">>
    [] c = "\"" -> <<"&","q","u","o","t",";">>
    [] c = "'" -> <<"&","#","3","9",";">>
    [] OTHER -> <<c>>

\* escapeHtml as it would be with one replacement per character, the ampersand last:
\* the ampersands of the entities written before are escaped again
escapeHtmlAmpLast(s) ==
  LET Others(t) == Concat([i \in 1..Len(t) |-> IF t[i] = "&" THEN <<"&">> ELSE EscapeChar(t[i])])
      Amps(t) == Concat([i \in 1..Len(t) |-> IF t[i] = "&" THEN <<"&","a","m","p",";">> ELSE <<t[i]>>])
  IN  Amps(Others(s))

escapeHtml(s) == Concat([i \in 1..Len(s) |-> EscapeChar(s[i])])

\* .replace(/[^\w\s-]/g, '')
StripNonSlug(s) ==
  LET Keep(c) == IsWord(c) \/ IsSpace(c) \/ c = "-"
  IN  FilterSeq(s, Keep)

\* .replace(/\s+/g, '-') and .replace(/-+/g, '-'): each maximal run becomes one hyphen
CollapseRuns(s, C(_)) ==
  LET M(t, i) == IF C(t[i]) THEN RunEnd(t, i, C) ELSE 0
      R(t, i, e) == <<"-">>
  IN  ReplaceAll(s, M, R)

slugify(s, prefix) ==
  LET IsHyphen(c) == c = "-"
      slug == CollapseRuns(CollapseRuns(StripNonSlug(trim(toLowerCase(s))), IsSpace), IsHyphen)
  IN  IF prefix # <<>> THEN prefix \o slug ELSE slug

(***************************************************************************)
(* DEFAULT_OPTIONS                                                         *)
(***************************************************************************)
DEFAULT_OPTIONS ==
  [sanitize |-> TRUE, breaks |-> FALSE, linkify |-> TRUE, typographer |-> FALSE,
   langPrefix |-> <<"l","a","n","g","u","a","g","e","-">>, taskLists |-> TRUE, tables |-> TRUE,
   highlight |-> TRUE, headerIdPrefix |-> <<>>]

(***************************************************************************)
(* parseCodeBlocks                                                         *)
(***************************************************************************)
\* /```(\w*)\n([\s\S]*?)```/ tried at i: the position of the \n after the language
\* (0: no match).  \w* is greedy and the next character must be \n, so only the
\* whole run of word characters can be the language.
FenceNewline(s, i) ==
  IF ~HasAt(s, i, <<TICK,TICK,TICK>>) THEN 0
  ELSE LET j == RunEnd(s, i + 3, IsWord)
       IN  IF j <= Len(s) /\ s[j] = NL THEN j ELSE 0

\* the lazy [\s\S]*? ends at the first ``` after the newline
FenceMatch(s, i) ==
  LET j == FenceNewline(s, i)
      k == IF j = 0 THEN 0 ELSE IndexOf(s, <<TICK,TICK,TICK>>, j + 1)
  IN  IF k = 0 THEN 0 ELSE k + 3

FenceRepl(s, i, e, opts) ==
  LET j == FenceNewline(s, i)
      lang == Slice(s, i + 3, j)
      code == Slice(s, j + 1, e - 3)
      escapedCode == escapeHtml(trim(code))
      langClass == IF lang # <<>> THEN <<" ","c","l","a","s","s","=","\"">> \o opts.langPrefix \o lang \o <<"\"">> ELSE <<>>
      dataLang == IF lang # <<>> THEN <<" ","d","a","t","a","-","l","a","n","g","=","\"">> \o lang \o <<"\"">> ELSE <<>>
  IN  <<"<","p","r","e">> \o dataLang \o <<">","<","c","o","d","e">> \o langClass \o <<">">> \o escapedCode \o <<"<","/","c","o","d","e",">","<","/","p","r","e",">">>

\* /`([^`\n]+)`/ tried at i
InlineCodeMatch(s, i) ==
  LET NotTick(c) == c # TICK /\ c # NL
      j == RunEnd(s, i + 1, NotTick)
  IN  IF s[i] = TICK /\ j > i + 1 /\ j <= Len(s) /\ s[j] = TICK THEN j + 1 ELSE 0

InlineCodeRepl(s, i, e) == <<"<","c","o","d","e",">">> \o escapeHtml(Slice(s, i + 1, e - 1)) \o <<"<","/","c","o","d","e",">">>

InlineCode(s) == ReplaceAll(s, InlineCodeMatch, InlineCodeRepl)

parseCodeBlocks(s, opts) ==
  LET R(t, i, e) == FenceRepl(t, i, e, opts)
  IN  InlineCode(ReplaceAll(s, FenceMatch, R))

(***************************************************************************)
(* parseHeaders                                                            *)
(***************************************************************************)
\* \s+(.+)$ tried at a: where the captured content starts (0: no match).  \s+ takes
\* the whole run of white space and gives characters back until .+ finds a character
\* of the line to start on.
ContentStart(s, a) ==
  LET b == RunEnd(s, a, IsSpace)
      Ok(p) == p <= Len(s) /\ IsDot(s[p])
  IN  IF \E p \in (a + 1)..b : Ok(p)
        THEN CHOOSE p \in (a + 1)..b : Ok(p) /\ \A q \in (p + 1)..b : ~Ok(q)
        ELSE 0

\* /^(#{1,6})\s+(.+)$/m tried at i: <<end of hashes, content start, match end>>
AtxParts(s, i) ==
  LET IsHash(c) == c = "#"
      h == RunEnd(s, i, IsHash)
      p == ContentStart(s, h)
  IN  IF AtLineStart(s, i) /\ i <= Len(s) /\ s[i] = "#" /\ h - i <= 6 /\ p # 0
        THEN <<h, p, EndOfLine(s, p)>>
        ELSE <<0, 0, 0>>

AtxMatch(s, i) == AtxParts(s, i)[3]

HeaderHtml(level, content, opts) ==
  LET n == <<Digitchar(level)>>
  IN  <<"<","h">> \o n \o <<" ","i","d","=","\"">> \o slugify(content, opts.headerIdPrefix) \o <<"\"",">">>
        \o trim(content) \o <<"<","/","h">> \o n \o <<">">>

AtxRepl(s, i, e, opts) ==
  LET parts == AtxParts(s, i)
  IN  HeaderHtml(parts[1] - i, Slice(s, parts[2], e), opts)

\* /^(.+)\n={2,}$/m and /^(.+)\n-{2,}$/m tried at i, for the underline character c
SetextMatch(s, i, c) ==
  LET IsC(x) == x = c
      e1 == EndOfLine(s, i)
      r == RunEnd(s, e1 + 1, IsC)
  IN  IF AtLineStart(s, i) /\ e1 > i /\ e1 <= Len(s) /\ s[e1] = NL
         /\ r - (e1 + 1) >= 2 /\ AtLineEnd(s, r)
        THEN r ELSE 0

SetextRepl(s, i, level, opts) == HeaderHtml(level, Slice(s, i, EndOfLine(s, i)), opts)

parseHeaders(s, opts) ==
  LET RAtx(t, i, e) == AtxRepl(t, i, e, opts)
      M1(t, i) == SetextMatch(t, i, "=")
      R1(t, i, e) == SetextRepl(t, i, 1, opts)
      M2(t, i) == SetextMatch(t, i, "-")
      R2(t, i, e) == SetextRepl(t, i, 2, opts)
  IN  ReplaceAll(ReplaceAll(ReplaceAll(s, AtxMatch, RAtx), M1, R1), M2, R2)

(***************************************************************************)
(* parseEmphasis                                                           *)
(***************************************************************************)
\* /D(.+?)D/ tried at i for the delimiter d: the position of the closing delimiter
\* (0: no match).  The lazy .+? takes at least one character and stays on the line.
DelimClose(s, i, d) ==
  LET from == i + Len(d)
      j == IndexOf(s, d, from + 1)
  IN  IF HasAt(s, i, d) /\ j # 0 /\ j <= EndOfLine(s, from) THEN j ELSE 0

WrapDelim(s, d, tag) ==
  LET M(t, i) == IF DelimClose(t, i, d) = 0 THEN 0 ELSE DelimClose(t, i, d) + Len(d)
      R(t, i, e) == <<"<">> \o tag \o <<">">> \o Slice(t, i + Len(d), e - Len(d))
                      \o <<"<","/">> \o tag \o <<">">>
  IN  ReplaceAll(s, M, R)

parseEmphasis(s) ==
  WrapDelim(WrapDelim(WrapDelim(WrapDelim(WrapDelim(s,
    <<"*","*">>, <<"s","t","r","o","n","g">>), <<"_","_">>, <<"s","t","r","o","n","g">>), <<"*">>, <<"e","m">>), <<"_">>, <<"e","m">>), <<"~","~">>, <<"d","e","l">>)

(***************************************************************************)
(* parseLinksAndImages                                                     *)
(***************************************************************************)
\* ([^)\s]+)(?:\s+"([^"]*)")?\) tried at p, the start of the url:
\* <<end of url, start of title, end of title, match end>>; no title: 0, 0.
TargetParts(s, p) ==
  LET IsUrl(c) == c # ")" /\ ~IsSpace(c)
      NotQuote(c) == c # "\""
      u == RunEnd(s, p, IsUrl)
      w == RunEnd(s, u, IsSpace)
      q == RunEnd(s, w + 1, NotQuote)
  IN  IF u = p \/ u > Len(s) THEN <<0, 0, 0, 0>>
      ELSE IF s[u] = ")" THEN <<u, 0, 0, u + 1>>
      ELSE IF w <= Len(s) /\ s[w] = "\"" /\ q <= Len(s) /\ HasAt(s, q + 1, <<")">>)
        THEN <<u, w + 1, q, q + 2>>
      ELSE <<0, 0, 0, 0>>

NotRBracket(c) == c # "]"

\* /!\[([^\]]*)\]\(.../ tried at i: the position of the ] (0: no match)
ImageBracket(s, i) ==
  LET a == RunEnd(s, i + 2, NotRBracket)
  IN  IF HasAt(s, i, <<"!","[">>) /\ HasAt(s, a, <<"]","(">>) /\ TargetParts(s, a + 2)[4] # 0
        THEN a ELSE 0

ImageMatch(s, i) == IF ImageBracket(s, i) = 0 THEN 0 ELSE TargetParts(s, ImageBracket(s, i) + 2)[4]

TitleAttr(s, parts) ==
  IF parts[2] # 0 /\ parts[3] > parts[2]
    THEN <<" ","t","i","t","l","e","=","\"">> \o escapeHtml(Slice(s, parts[2], parts[3])) \o <<"\"">>
    ELSE <<>>

ImageRepl(s, i, e) ==
  LET a == ImageBracket(s, i)
      parts == TargetParts(s, a + 2)
  IN  <<"<","i","m","g"," ","s","r","c","=","\"">> \o escapeHtml(Slice(s, a + 2, parts[1])) \o <<"\""," ","a","l","t","=","\"">>
        \o escapeHtml(Slice(s, i + 2, a)) \o <<"\"">> \o TitleAttr(s, parts) \o <<">">>

\* /\[([^\]]+)\]\(.../ tried at i: the position of the ] (0: no match)
LinkBracket(s, i) ==
  LET a == RunEnd(s, i + 1, NotRBracket)
  IN  IF s[i] = "[" /\ a > i + 1 /\ HasAt(s, a, <<"]","(">>) /\ TargetParts(s, a + 2)[4] # 0
        THEN a ELSE 0

LinkMatch(s, i) == IF LinkBracket(s, i) = 0 THEN 0 ELSE TargetParts(s, LinkBracket(s, i) + 2)[4]

LinkRepl(s, i, e) ==
  LET a == LinkBracket(s, i)
      parts == TargetParts(s, a + 2)
  IN  <<"<","a"," ","h","r","e","f","=","\"">> \o escapeHtml(Slice(s, a + 2, parts[1])) \o <<"\"">> \o TitleAttr(s, parts)
        \o <<">">> \o Slice(s, i + 1, a) \o <<"<","/","a",">">>

\* /(?<!["\(])(https?:\/\/[^\s<>\[\]]+)(?!["\)])/ tried at i.  The greedy run ends
\* before white space, <, >, [, ] or the end, none of which the lookahead refuses,
\* so the run is never shortened.
AutoLinkMatch(s, i) ==
  LET IsAuto(c) == ~IsSpace(c) /\ c \notin {"<", ">", "[", "]"}
      p == IF HasAt(s, i, <<"h","t","t","p","s",":","/","/">>) THEN i + 8
           ELSE IF HasAt(s, i, <<"h","t","t","p",":","/","/">>) THEN i + 7 ELSE 0
      r == RunEnd(s, p, IsAuto)
  IN  IF p # 0 /\ (i = 1 \/ s[i - 1] \notin {"\"", "("}) /\ r > p THEN r ELSE 0

AutoLinkRepl(s, i, e) ==
  <<"<","a"," ","h","r","e","f","=","\"">> \o Slice(s, i, e) \o <<"\"",">">> \o Slice(s, i, e) \o <<"<","/","a",">">>

parseLinksAndImages(s, opts) ==
  LET Linkified(t) == IF opts.linkify THEN ReplaceAll(t, AutoLinkMatch, AutoLinkRepl) ELSE t
  IN  Linkified(ReplaceAll(ReplaceAll(s, ImageMatch, ImageRepl), LinkMatch, LinkRepl))

(***************************************************************************)
(* parseLists                                                              *)
(***************************************************************************)
\* the character at position i, "" beyond the ends
At(s, i) == IF i >= 1 /\ i <= Len(s) THEN s[i] ELSE ""

\* /^(\s*)[-*]\s+\[([ xX])\]\s+(.+)$/m tried at i:
\* <<end of indent, position of the check mark, content start, match end>>
TaskParts(s, i) ==
  LET w == RunEnd(s, i, IsSpace)
      b == RunEnd(s, w + 1, IsSpace)
      p == ContentStart(s, b + 3)
  IN  IF AtLineStart(s, i) /\ At(s, w) \in {"-", "*"} /\ b > w + 1
         /\ At(s, b) = "[" /\ At(s, b + 1) \in {" ", "x", "X"} /\ At(s, b + 2) = "]"
         /\ p # 0
        THEN <<w, b + 1, p, EndOfLine(s, p)>>
        ELSE <<0, 0, 0, 0>>

TaskMatch(s, i) == TaskParts(s, i)[4]

TaskRepl(s, i, e) ==
  LET parts == TaskParts(s, i)
      isChecked == LowerChar(s[parts[2]]) = "x"
      checkedAttr == IF isChecked THEN <<" ","c","h","e","c","k","e","d"," ","d","i","s","a","b","l","e","d">> ELSE <<" ","d","i","s","a","b","l","e","d">>
  IN  Slice(s, i, parts[1]) \o <<"<","l","i"," ","c","l","a","s","s","=","\"","t","a","s","k","-","l","i","s","t","-","i","t","e","m","\"",">","<","i","n","p","u","t"," ","t","y","p","e","=","\"","c","h","e","c","k","b","o","x","\"">>
        \o checkedAttr \o <<">"," ">> \o Slice(s, parts[3], e) \o <<"<","/","l","i",">">>

\* the lookahead \[[ xX]\] at p
TaskAhead(s, p) == At(s, p) = "[" /\ At(s, p + 1) \in {" ", "x", "X"} /\ At(s, p + 2) = "]"

\* /^(\s*)[-*+]\s+(?!\[[ xX]\])(.+)$/m tried at i:
\* <<end of indent, content start, match end>>.  \s+ gives characters back until the
\* lookahead passes and .+ has a character of the line to start on.
BulletParts(s, i) ==
  LET w == RunEnd(s, i, IsSpace)
      b == RunEnd(s, w + 1, IsSpace)
      Ok(p) == p <= Len(s) /\ IsDot(s[p]) /\ ~TaskAhead(s, p)
  IN  IF AtLineStart(s, i) /\ At(s, w) \in {"-", "*", "+"} /\ (\E p \in (w + 2)..b : Ok(p))
        THEN LET p == CHOOSE p \in (w + 2)..b : Ok(p) /\ \A q \in (p + 1)..b : ~Ok(q)
             IN  <<w, p, EndOfLine(s, p)>>
        ELSE <<0, 0, 0>>

\* /^(\s*)\d+\.\s+(.+)$/m tried at i: <<end of indent, content start, match end>>
OrderedParts(s, i) ==
  LET w == RunEnd(s, i, IsSpace)
      d == RunEnd(s, w, IsDigit)
      p == ContentStart(s, d + 1)
  IN  IF AtLineStart(s, i) /\ d > w /\ At(s, d) = "." /\ p # 0
        THEN <<w, p, EndOfLine(s, p)>>
        ELSE <<0, 0, 0>>

\* '$1<li>$2</li>'
ItemRepl(s, i, parts) ==
  Slice(s, i, parts[1]) \o <<"<","l","i",">">> \o Slice(s, parts[2], parts[3]) \o <<"<","/","l","i",">">>

\* the loop as it would be without the test of inList after it: a run that ends the
\* input stays open
RECURSIVE WrapLinesOpen(_, _, _, _)
WrapLinesOpen(lines, k, inList, listType) ==
  IF k > Len(lines)
    THEN <<>>
    ELSE LET line == lines[k]
             isListItem == StartsWith(trim(line), <<"<","l","i">>)
             isTaskItem == Includes(line, <<"t","a","s","k","-","l","i","s","t","-","i","t","e","m">>)
             opened == IF isTaskItem THEN <<"u","l"," ","c","l","a","s","s","=","\"","t","a","s","k","-","l","i","s","t","\"">> ELSE <<"u","l">>
         IN  IF isListItem /\ ~inList
               THEN <<<<"<">> \o opened \o <<">">>, line>> \o WrapLinesOpen(lines, k + 1, TRUE, opened)
             ELSE IF ~isListItem /\ inList
               THEN <<<<"<","/">> \o SplitOn(listType, " ")[1] \o <<">">>, line>>
                      \o WrapLinesOpen(lines, k + 1, FALSE, <<>>)
             ELSE <<line>> \o WrapLinesOpen(lines, k + 1, inList, listType)

\* the loop that wraps runs of <li> lines: lines[k..], with the loop's inList and
\* listType (the opening tag's text) as it reaches line k
RECURSIVE WrapLines(_, _, _, _)
WrapLines(lines, k, inList, listType) ==
  IF k > Len(lines)
    THEN (IF inList THEN <<<<"<","/","u","l",">">>>> ELSE <<>>)
    ELSE LET line == lines[k]
             isListItem == StartsWith(trim(line), <<"<","l","i">>)
             isTaskItem == Includes(line, <<"t","a","s","k","-","l","i","s","t","-","i","t","e","m">>)
             opened == IF isTaskItem THEN <<"u","l"," ","c","l","a","s","s","=","\"","t","a","s","k","-","l","i","s","t","\"">> ELSE <<"u","l">>
         IN  IF isListItem /\ ~inList
               THEN <<<<"<">> \o opened \o <<">">>, line>> \o WrapLines(lines, k + 1, TRUE, opened)
             ELSE IF ~isListItem /\ inList
               THEN <<<<"<","/">> \o SplitOn(listType, " ")[1] \o <<">">>, line>>
                      \o WrapLines(lines, k + 1, FALSE, <<>>)
             ELSE <<line>> \o WrapLines(lines, k + 1, inList, listType)

parseLists(s, opts) ==
  LET MB(t, i) == BulletParts(t, i)[3]
      RB(t, i, e) == ItemRepl(t, i, BulletParts(t, i))
      MO(t, i) == OrderedParts(t, i)[3]
      RO(t, i, e) == ItemRepl(t, i, OrderedParts(t, i))
      tasks == IF opts.taskLists THEN ReplaceAll(s, TaskMatch, TaskRepl) ELSE s
      items == ReplaceAll(ReplaceAll(tasks, MB, RB), MO, RO)
  IN  Join(WrapLines(SplitOn(items, NL), 1, FALSE, <<>>), <<NL>>)

(***************************************************************************)
(* parseBlockquotes                                                        *)
(***************************************************************************)
\* the replace as it would be with \s* for \s?: every space after the > goes
StripQuoteMarkerSpaces(line) ==
  LET RECURSIVE From(_)
      From(p) == IF p <= Len(line) /\ IsSpace(line[p]) THEN From(p + 1) ELSE p
  IN  Slice(line, From(2), Len(line) + 1)

\* line.replace(/^>\s?/, '')
StripQuoteMarker(line) ==
  IF Len(line) >= 2 /\ IsSpace(line[2]) THEN Slice(line, 3, Len(line) + 1)
  ELSE Slice(line, 2, Len(line) + 1)

RECURSIVE QuoteLines(_, _, _)
QuoteLines(lines, k, inBlockquote) ==
  IF k > Len(lines)
    THEN (IF inBlockquote THEN <<<<"<","/","b","l","o","c","k","q","u","o","t","e",">">>>> ELSE <<>>)
    ELSE LET line == lines[k]
         IN  IF StartsWith(line, <<">">>)
               THEN (IF ~inBlockquote THEN <<<<"<","b","l","o","c","k","q","u","o","t","e",">">>>> ELSE <<>>)
                      \o <<StripQuoteMarker(line)>> \o QuoteLines(lines, k + 1, TRUE)
               ELSE (IF inBlockquote THEN <<<<"<","/","b","l","o","c","k","q","u","o","t","e",">">>>> ELSE <<>>)
                      \o <<line>> \o QuoteLines(lines, k + 1, FALSE)

parseBlockquotes(s) == Join(QuoteLines(SplitOn(s, NL), 1, FALSE), <<NL>>)

(***************************************************************************)
(* parseTables                                                             *)
(***************************************************************************)
\* \|.+\|\n? tried at p: the position after the row (0: no match).  The greedy .+
\* gives back to the last | of the line, and the newline is taken when it is there.
RowEnd(s, p) ==
  LET eol == EndOfLine(s, p)
      Bars == {c \in (p + 2)..(eol - 1) : s[c] = "|"}
  IN  IF At(s, p) = "|" /\ Bars # {}
        THEN LET c == CHOOSE c \in Bars : \A d \in Bars : d <= c
             IN  IF At(s, c + 1) = NL THEN c + 2 ELSE c + 1
        ELSE 0

\* (?:\|.+\|\n?)+ tried at p: the position after the last row (0: no row)
RECURSIVE BodyEnd(_, _)
BodyEnd(s, p) ==
  LET e == RowEnd(s, p)
  IN  IF e = 0 THEN 0 ELSE Max({e, BodyEnd(s, e)})

\* /^(\|.+\|)\n(\|[-:\s|]+\|)\n((?:\|.+\|\n?)+)/m tried at i:
\* <<end of header row, position of the separator's last |, match end>>.
\* [-:\s|]+ also takes | and line feeds, so it runs as far as it can and gives back
\* to the last | that a line feed and a body row follow.
TableParts(s, i) ==
  LET IsSep(c) == c \in {"-", ":", "|"} \/ IsSpace(c)
      e1 == EndOfLine(s, i)
      a == e1 + 1
      r == RunEnd(s, a + 1, IsSep)
      Ok(k) == s[k] = "|" /\ At(s, k + 1) = NL /\ BodyEnd(s, k + 2) # 0
  IN  IF AtLineStart(s, i) /\ At(s, i) = "|" /\ At(s, e1) = NL /\ e1 - 1 >= i + 2
         /\ s[e1 - 1] = "|" /\ At(s, a) = "|" /\ (\E k \in (a + 2)..(r - 1) : Ok(k))
        THEN LET k == CHOOSE k \in (a + 2)..(r - 1) : Ok(k) /\ \A q \in (k + 1)..(r - 1) : ~Ok(q)
             IN  <<e1, k, BodyEnd(s, k + 2)>>
        ELSE <<0, 0, 0>>

TableMatch(s, i) == TableParts(s, i)[3]

\* row.split('|').filter(cell => cell.trim())
Cells(row) ==
  LET NonBlank(cell) == trim(cell) # <<>>
  IN  FilterSeq(SplitOn(row, "|"), NonBlank)

Alignment(cell) ==
  LET trimmed == trim(cell)
  IN  IF trimmed[1] = ":" /\ trimmed[Len(trimmed)] = ":" THEN <<"c","e","n","t","e","r">>
      ELSE IF trimmed[Len(trimmed)] = ":" THEN <<"r","i","g","h","t">>
      ELSE <<"l","e","f","t">>

\* the cells of a row as <th> or <td> elements
RowHtml(row, alignments, tag) ==
  LET Align(k) == IF k <= Len(alignments)
                    THEN <<" ","s","t","y","l","e","=","\"","t","e","x","t","-","a","l","i","g","n",":"," ">> \o alignments[k] \o <<"\"">>
                    ELSE <<>>
      Row(cells) ==
        Concat([k \in 1..Len(cells) |->
                  <<"<">> \o tag \o Align(k) \o <<">">> \o trim(cells[k]) \o <<"<","/">> \o tag \o <<">">>])
  IN  Row(Cells(row))

TableRepl(s, i, e) ==
  LET Html(headerRow, alignments, rows) ==
        <<"<","t","a","b","l","e",">","\n","<","t","h","e","a","d",">","\n","<","t","r",">">> \o RowHtml(headerRow, alignments, <<"t","h">>)
          \o <<"<","/","t","r",">","\n","<","/","t","h","e","a","d",">","\n","<","t","b","o","d","y",">","\n">>
          \o Join([k \in 1..Len(rows) |->
                     <<"<","t","r",">">> \o RowHtml(rows[k], alignments, <<"t","d">>) \o <<"<","/","t","r",">">>], <<NL>>)
          \o <<"\n","<","/","t","b","o","d","y",">","\n","<","/","t","a","b","l","e",">">>
      Alignments(sepCells) == [k \in 1..Len(sepCells) |-> Alignment(sepCells[k])]
      Rows(parts) ==
        Html(Slice(s, i, parts[1]),
             Alignments(Cells(Slice(s, parts[1] + 1, parts[2] + 1))),
             SplitOn(trim(Slice(s, parts[2] + 2, e)), NL))
  IN  Rows(TableParts(s, i))

parseTables(s, opts) ==
  IF ~opts.tables THEN s ELSE ReplaceAll(s, TableMatch, TableRepl)

(***************************************************************************)
(* parseHorizontalRules                                                    *)
(***************************************************************************)
\* /^(?:[-*_]){3,}\s*$/m tried at i.  \s* also takes line feeds: it runs as far as
\* it can and gives back until it stands at the end of a line.
RuleMatch(s, i) ==
  LET IsRule(c) == c \in {"-", "*", "_"}
      a == RunEnd(s, i, IsRule)
      b == RunEnd(s, a, IsSpace)
  IN  IF AtLineStart(s, i) /\ a - i >= 3 /\ (\E p \in a..b : AtLineEnd(s, p))
        THEN CHOOSE p \in a..b : AtLineEnd(s, p) /\ \A q \in (p + 1)..b : ~AtLineEnd(s, q)
        ELSE 0

parseHorizontalRules(s) ==
  LET R(t, i, e) == <<"<","h","r",">">>
  IN  ReplaceAll(s, RuleMatch, R)

(***************************************************************************)
(* parseParagraphs                                                         *)
(***************************************************************************)
\* text.split(/\n\n+/): the pieces between the maximal runs of two or more line feeds
SplitBlocks(s) ==
  LET IsNL(c) == c = NL
      runs == {j \in 1..Len(s) : HasAt(s, j, <<NL, NL>>) /\ At(s, j - 1) # NL}
      RECURSIVE go(_)
      go(i) ==
        IF \A j \in runs : j < i THEN <<Slice(s, i, Len(s) + 1)>>
        ELSE LET k == Min({j \in runs : j >= i})
             IN  <<Slice(s, i, k)>> \o go(RunEnd(s, k, IsNL))
  IN  go(1)

BlockTags ==
  { <<"d","i","v">>, <<"p">>, <<"u","l">>, <<"o","l">>, <<"l","i">>, <<"t","a","b","l","e">>, <<"t","h","e","a","d">>, <<"t","b","o","d","y">>, <<"t","r">>, <<"t","h">>,
    <<"t","d">>, <<"b","l","o","c","k","q","u","o","t","e">>, <<"p","r","e">>, <<"h","r">>, <<"i","m","g">> }

\* /^<(div|p|h[1-6]|ul|ol|li|table|thead|tbody|tr|th|td|blockquote|pre|hr|img)/i
IsHtmlBlock(s) ==
  /\ At(s, 1) = "<"
  /\ \/ \E tag \in BlockTags : HasAtCI(s, 2, tag)
     \/ LowerChar(At(s, 2)) = "h" /\ At(s, 3) \in {"1", "2", "3", "4", "5", "6"}

\* a block as it would be left without the <p> wrapper
ParagraphOfUnwrapped(block, opts) ==
  LET trimmed == block
      M(t, i) == IF t[i] = NL THEN i + 1 ELSE 0
      R(t, i, e) == <<"<","b","r",">","\n">>
      content == IF opts.breaks THEN ReplaceAll(trimmed, M, R) ELSE trimmed
  IN  IF IsHtmlBlock(trimmed) THEN trimmed
      ELSE IF trimmed = <<>> THEN <<>>
      ELSE content

ParagraphOf(block, opts) ==
  LET trimmed == block
      M(t, i) == IF t[i] = NL THEN i + 1 ELSE 0
      R(t, i, e) == <<"<","b","r",">","\n">>
      content == IF opts.breaks THEN ReplaceAll(trimmed, M, R) ELSE trimmed
  IN  IF IsHtmlBlock(trimmed) THEN trimmed
      ELSE IF trimmed = <<>> THEN <<>>
      ELSE <<"<","p",">">> \o content \o <<"<","/","p",">">>

parseParagraphs(s, opts) ==
  LET blocks == SplitBlocks(s)
  IN  Join([k \in 1..Len(blocks) |-> ParagraphOf(trim(blocks[k]), opts)], <<NL, NL>>)

(***************************************************************************)
(* applyTypographer                                                        *)
(***************************************************************************)
\* /Q([^Q]+)Q/ tried at i for the quote character q
QuotedMatch(s, i, q) ==
  LET NotQ(c) == c # q
      j == RunEnd(s, i + 1, NotQ)
  IN  IF s[i] = q /\ j > i + 1 /\ j <= Len(s) THEN j + 1 ELSE 0

ReplaceLiteral(s, lit, by) ==
  LET M(t, i) == IF HasAt(t, i, lit) THEN i + Len(lit) ELSE 0
      R(t, i, e) == by
  IN  ReplaceAll(s, M, R)

applyTypographer(s) ==
  LET MD(t, i) == QuotedMatch(t, i, "\"")
      RD(t, i, e) == <<LDQUO>> \o Slice(t, i + 1, e - 1) \o <<RDQUO>>
      MS(t, i) == QuotedMatch(t, i, "'")
      RS(t, i, e) == <<LSQUO>> \o Slice(t, i + 1, e - 1) \o <<RSQUO>>
      quoted == ReplaceAll(ReplaceAll(s, MD, RD), MS, RS)
  IN  ReplaceLiteral(ReplaceLiteral(ReplaceLiteral(quoted,
        <<"-","-","-">>, <<MDASH>>), <<"-","-">>, <<NDASH>>), <<".",".",".">>, <<HELLIP>>)

(***************************************************************************)
(* sanitizeOutput                                                          *)
(***************************************************************************)
\* /<script[\s\S]*?>[\s\S]*?<\/script>/i tried at i: the lazy runs stop at the first >
\* and at the first </script> after it
ScriptMatch(s, i) ==
  LET j == IndexOf(s, <<">">>, i + 7)
      k == IF j = 0 THEN 0 ELSE IndexOfCI(s, <<"<","/","s","c","r","i","p","t",">">>, j + 1)
  IN  IF HasAtCI(s, i, <<"<","s","c","r","i","p","t">>) /\ k # 0 THEN k + 9 ELSE 0

\* /\son\w+=Q[^Q]*Q/i tried at i for the quote character q
HandlerMatch(s, i, q) ==
  LET w == RunEnd(s, i + 3, IsWord)
      c == IndexOf(s, <<q>>, w + 2)
  IN  IF IsSpace(s[i]) /\ HasAtCI(s, i + 1, <<"o","n">>) /\ w > i + 3
         /\ At(s, w) = "=" /\ At(s, w + 1) = q /\ c # 0
        THEN c + 1 ELSE 0

\* /(href|src)=["']javascript:[^"']*["']/i tried at i: <<end of the name, match end>>
ScriptUrlParts(s, i) ==
  LET NotQuote(c) == c \notin {"\"", "'"}
      n == IF HasAtCI(s, i, <<"h","r","e","f">>) THEN i + 4
           ELSE IF HasAtCI(s, i, <<"s","r","c">>) THEN i + 3 ELSE 0
      r == RunEnd(s, n + 13, NotQuote)
  IN  IF n # 0 /\ At(s, n) = "=" /\ At(s, n + 1) \in {"\"", "'"}
         /\ HasAtCI(s, n + 2, <<"j","a","v","a","s","c","r","i","p","t",":">>) /\ r <= Len(s)
        THEN <<n, r + 1>>
        ELSE <<0, 0>>

\* the sanitizer as it would be without its first replacement, the one of script elements
sanitizeOutputKeepsScripts(html) ==
  LET Gone(t, i, e) == <<>>
      MD(t, i) == HandlerMatch(t, i, "\"")
      MS(t, i) == HandlerMatch(t, i, "'")
      MU(t, i) == ScriptUrlParts(t, i)[2]
      RU(t, i, e) == Slice(t, i, ScriptUrlParts(t, i)[1]) \o <<"=","\"","#","\"">>
  IN  ReplaceAll(ReplaceAll(ReplaceAll(html, MD, Gone), MS, Gone), MU, RU)

sanitizeOutput(html) ==
  LET Gone(t, i, e) == <<>>
      MD(t, i) == HandlerMatch(t, i, "\"")
      MS(t, i) == HandlerMatch(t, i, "'")
      MU(t, i) == ScriptUrlParts(t, i)[2]
      RU(t, i, e) == Slice(t, i, ScriptUrlParts(t, i)[1]) \o <<"=","\"","#","\"">>
  IN  ReplaceAll(ReplaceAll(ReplaceAll(ReplaceAll(html, ScriptMatch, Gone), MD, Gone), MS, Gone),
                 MU, RU)

(***************************************************************************)
(* JavaScript values: a string, an array, or something that is neither     *)
(***************************************************************************)
Str(v) == [type |-> "string", val |-> v]
Arr(v) == [type |-> "array", val |-> v]
NonStrings ==
  {[type |-> t, val |-> <<>>] : t \in {"null", "undefined", "number", "object"}}
\* throw new Error(message)
Thrown(message) == [type |-> "error", val |-> message]
\* no value yet
None == [type |-> "none", val |-> <<>>]

\* { ...DEFAULT_OPTIONS, ...options }
Merged(given) ==
  [k \in DOMAIN DEFAULT_OPTIONS \cup DOMAIN given |->
     IF k \in DOMAIN given THEN given[k] ELSE DEFAULT_OPTIONS[k]]

opts == Merged(options)

(***************************************************************************)
(* generateTOC and renderTOC                                               *)
(***************************************************************************)
\* options.maxLevel || 3
MaxLevelOf(given) ==
  IF "maxLevel" \in DOMAIN given /\ given.maxLevel # 0 THEN given.maxLevel ELSE 3

\* options.prefix || ''
PrefixOf(given) == IF "prefix" \in DOMAIN given THEN given.prefix ELSE <<>>

\* the entry of the heading matched at m = <<start, end>>
TocEntry(markdown, m, prefix) ==
  LET parts == AtxParts(markdown, m[1])
      txt == trim(Slice(markdown, parts[2], m[2]))
  IN  [level |-> parts[1] - m[1], text |-> txt, id |-> slugify(txt, prefix)]

generateTOC(markdown, given) ==
  LET found == MatchesOf(markdown, AtxMatch)
      Wanted(m) == AtxParts(markdown, m[1])[1] - m[1] <= MaxLevelOf(given)
      kept == FilterSeq(found, Wanted)
  IN  [k \in 1..Len(kept) |-> TocEntry(markdown, kept[k], PrefixOf(given))]

\* the loop of renderTOC over toc[k..], prevLevel as it reaches entry k;
\* first is whether nothing has been appended to the opening yet
RECURSIVE TocItems(_, _, _, _)
TocItems(toc, k, prevLevel, first) ==
  IF k > Len(toc) THEN <<>>
  ELSE LET item == toc[k]
           before ==
             IF item.level > prevLevel THEN Repeat(<<"<","u","l",">">>, item.level - prevLevel)
             ELSE IF item.level < prevLevel
               THEN Repeat(<<"<","/","l","i",">","<","/","u","l",">">>, prevLevel - item.level) \o <<"<","/","l","i",">">>
             ELSE IF ~first THEN <<"<","/","l","i",">">>
             ELSE <<>>
       IN  before \o <<"<","l","i",">","<","a"," ","h","r","e","f","=","\"","#">> \o item.id \o <<"\"",">">> \o escapeHtml(item.text) \o <<"<","/","a",">">>
             \o TocItems(toc, k + 1, item.level, FALSE)

\* renderTOC for an array; String.prototype.repeat raises a RangeError for a
\* negative count
renderTOC(toc) ==
  IF Len(toc) = 0 THEN Str(<<>>)
  ELSE LET closings == toc[Len(toc)].level - toc[1].level + 1
       IN  IF closings < 0 THEN Thrown(<<"I","n","v","a","l","i","d"," ","c","o","u","n","t"," ","v","a","l","u","e">>)
           ELSE Str(<<"<","n","a","v"," ","c","l","a","s","s","=","\"","t","o","c","\"",">","<","u","l",">">> \o TocItems(toc, 1, toc[1].level, TRUE)
                      \o Repeat(<<"<","/","l","i",">","<","/","u","l",">">>, closings) \o <<"<","/","n","a","v",">">>)

(***************************************************************************)
(* parseInline                                                             *)
(***************************************************************************)
parseInline(s, o) ==
  LET Typed(t) == IF o.typographer THEN applyTypographer(t) ELSE t
      Sanitized(t) == IF o.sanitize THEN sanitizeOutput(t) ELSE t
  IN  Sanitized(Typed(parseLinksAndImages(parseEmphasis(InlineCode(s)), o)))

(***************************************************************************)
(* The calls.  parse is followed stage by stage: pc is the stage about to  *)
(* run, text the local variable of parse, stages the stages run so far.    *)
(* The other four functions are one step each.                             *)
(***************************************************************************)
Returned(v) ==
  /\ pc' = "done"
  /\ result' = v
  /\ UNCHANGED <<fn, arg, options, text, stages, notMarkdown>>

\* parse: the type check, the merge of the options, let text = markdown
\* parse as it would be without its typeof test: every argument goes on to the stages
ParseEnterUnchecked ==
  /\ fn = "parse" /\ pc = "call"
  /\ pc' = "normalize"
  /\ text' = arg.val
  /\ UNCHANGED <<fn, arg, options, stages, result, notMarkdown>>

ParseEnter ==
  /\ fn = "parse" /\ pc = "call"
  /\ IF arg.type # "string"
       THEN /\ pc' = "done"
            /\ result' = Thrown(<<"M","a","r","k","d","o","w","n"," ","i","n","p","u","t"," ","m","u","s","t"," ","b","e"," ","a"," ","s","t","r","i","n","g">>)
            /\ text' = text
       ELSE /\ pc' = "normalize"
            /\ result' = result
            /\ text' = arg.val
  /\ UNCHANGED <<fn, arg, options, stages, notMarkdown>>

\* one stage of parse: from pc = at to pc = next, text replaced by out
Stage(at, next, out) ==
  /\ fn = "parse" /\ pc = at
  /\ text' = out
  /\ stages' = Append(stages, at)
  /\ pc' = next
  /\ UNCHANGED <<fn, arg, options, result, notMarkdown>>

\* a stage that parse runs only when the option is set
OptionalStage(at, next, enabled, out) ==
  /\ fn = "parse" /\ pc = at
  /\ text' = IF enabled THEN out ELSE text
  /\ stages' = IF enabled THEN Append(stages, at) ELSE stages
  /\ pc' = next
  /\ UNCHANGED <<fn, arg, options, result, notMarkdown>>

Normalize == Stage("normalize", "codeBlocks", ReplaceLiteral(text, <<CR, NL>>, <<NL>>))
CodeBlocks == Stage("codeBlocks", "tables", parseCodeBlocks(text, opts))
Tables == Stage("tables", "headers", parseTables(text, opts))
Headers == Stage("headers", "blockquotes", parseHeaders(text, opts))
Blockquotes == Stage("blockquotes", "horizontalRules", parseBlockquotes(text))
HorizontalRules == Stage("horizontalRules", "lists", parseHorizontalRules(text))
Lists == Stage("lists", "linksAndImages", parseLists(text, opts))
LinksAndImages == Stage("linksAndImages", "emphasis", parseLinksAndImages(text, opts))
Emphasis == Stage("emphasis", "typographer", parseEmphasis(text))
\* the typographer stage as it would be without its test of opts.typographer
TypographerAlways == Stage("typographer", "paragraphs", applyTypographer(text))

Typographer == OptionalStage("typographer", "paragraphs", opts.typographer, applyTypographer(text))
Paragraphs == Stage("paragraphs", "sanitize", parseParagraphs(text, opts))
Sanitize == OptionalStage("sanitize", "trim", opts.sanitize, sanitizeOutput(text))

\* return text.trim()
Trim ==
  /\ fn = "parse" /\ pc = "trim"
  /\ pc' = "done"
  /\ result' = Str(trim(text))
  /\ stages' = Append(stages, "trim")
  /\ UNCHANGED <<fn, arg, options, text, notMarkdown>>

ParseInline ==
  /\ fn = "parseInline" /\ pc = "call"
  /\ Returned(IF arg.type # "string" THEN Thrown(<<"T","e","x","t"," ","i","n","p","u","t"," ","m","u","s","t"," ","b","e"," ","a"," ","s","t","r","i","n","g">>)
              ELSE Str(parseInline(arg.val, opts)))

Escape ==
  /\ fn = "escape" /\ pc = "call"
  /\ Returned(IF arg.type # "string" THEN Thrown(<<"T","e","x","t"," ","i","n","p","u","t"," ","m","u","s","t"," ","b","e"," ","a"," ","s","t","r","i","n","g">>)
              ELSE Str(escapeHtml(arg.val)))

GenerateTOC ==
  /\ fn = "generateTOC" /\ pc = "call"
  /\ Returned(IF arg.type # "string" THEN Thrown(<<"M","a","r","k","d","o","w","n"," ","i","n","p","u","t"," ","m","u","s","t"," ","b","e"," ","a"," ","s","t","r","i","n","g">>)
              ELSE Arr(generateTOC(arg.val, options)))

RenderTOC ==
  /\ fn = "renderTOC" /\ pc = "call"
  /\ Returned(IF arg.type # "array" THEN Thrown(<<"T","O","C"," ","m","u","s","t"," ","b","e"," ","a","n"," ","a","r","r","a","y">>)
              ELSE renderTOC(arg.val))

ParseNext ==
  \/ ParseEnter \/ Normalize \/ CodeBlocks \/ Tables \/ Headers \/ Blockquotes
  \/ HorizontalRules \/ Lists \/ LinksAndImages \/ Emphasis \/ Typographer
  \/ Paragraphs \/ Sanitize \/ Trim

Next == ParseNext \/ ParseInline \/ Escape \/ GenerateTOC \/ RenderTOC

(***************************************************************************)
(* debounce, throttle and rateLimit (@manufosela/debounce-throttle)        *)
(*                                                                         *)
(* A value that may be null is a sequence: <<>> for null, <<v>> for v.     *)
(* The closure of a debounced function is a record of its variables; a     *)
(* step of it works on a world: the closure, the pending timeouts of the   *)
(* host and the list of the invocations of func.                           *)
(***************************************************************************)
Null == <<>>
Some(v) == <<v>>

\* debounce(func, delay, options): the closure after the destructuring of the options
\* and the declarations
debounce(delay, given) ==
  LET Closure(maxWait) ==
        [delay |-> delay,
         leading |-> IF "leading" \in DOMAIN given THEN given.leading ELSE FALSE,
         trailing |-> IF "trailing" \in DOMAIN given THEN given.trailing ELSE TRUE,
         hasMaxWait |-> maxWait # Null,
         maxWaitMs |-> IF maxWait # Null THEN Max({maxWait[1], delay}) ELSE 0,
         timerId |-> Null, maxTimerId |-> Null, lastArgs |-> Null, lastThis |-> Null,
         lastCallTime |-> Null, lastInvokeTime |-> 0, result |-> Null]
  IN  Closure(IF "maxWait" \in DOMAIN given THEN Some(given.maxWait) ELSE Null)

\* throttle(func, limit, options)
throttle(limit, given) ==
  debounce(limit,
           [leading |-> IF "leading" \in DOMAIN given THEN given.leading ELSE TRUE,
            trailing |-> IF "trailing" \in DOMAIN given THEN given.trailing ELSE TRUE,
            maxWait |-> limit])

\* timerId = setTimeout(timerExpired, ms) at the given time; the host numbers its
\* timeouts upwards, and a negative ms counts as 0
setTimeout(w, time, ms) ==
  LET New(id) ==
        [w EXCEPT !.timers = @ \cup {[id |-> id, set |-> time, due |-> time + Max({ms, 0})]},
                  !.d.timerId = Some(id)]
  IN  New(Max({0} \cup {t.id : t \in w.timers}) + 1)

\* invokeFunc as it would be if it kept lastArgs and lastThis: the call stays pending
invokeFuncKeeps(w, time, by) ==
  [w EXCEPT !.d.lastInvokeTime = time,
            !.d.result = w.d.lastArgs,
            !.invocations = Append(@, [time |-> time, args |-> w.d.lastArgs,
                                       this |-> w.d.lastThis, by |-> by])]

\* func.apply(thisArg, args), func giving back its arguments; by tells what ran it
invokeFunc(w, time, by) ==
  [w EXCEPT !.d.lastArgs = Null, !.d.lastThis = Null, !.d.lastInvokeTime = time,
            !.d.result = w.d.lastArgs,
            !.invocations = Append(@, [time |-> time, args |-> w.d.lastArgs,
                                       this |-> w.d.lastThis, by |-> by])]

shouldInvoke(d, time) ==
  LET timeSinceLastCall == IF d.lastCallTime = Null THEN 0 ELSE time - d.lastCallTime[1]
      timeSinceLastInvoke == time - d.lastInvokeTime
  IN  \/ d.lastCallTime = Null
      \/ timeSinceLastCall >= d.delay
      \/ timeSinceLastCall < 0
      \/ (d.hasMaxWait /\ timeSinceLastInvoke >= d.maxWaitMs)

trailingEdge(w, time, by) ==
  LET Cleared(v) ==
        IF v.d.trailing /\ v.d.lastArgs # Null
          THEN invokeFunc(v, time, by)
          ELSE [v EXCEPT !.d.lastArgs = Null, !.d.lastThis = Null]
  IN  Cleared([w EXCEPT !.d.timerId = Null])

remainingWait(d, time) ==
  LET timeSinceLastCall == time - d.lastCallTime[1]
      timeSinceLastInvoke == time - d.lastInvokeTime
      timeWaiting == d.delay - timeSinceLastCall
  IN  IF d.hasMaxWait THEN Min({timeWaiting, d.maxWaitMs - timeSinceLastInvoke})
      ELSE timeWaiting

\* the timer callback as it would be without its test: the timeout always ends the wait
timerExpiredUnchecked(w, time) ==
  trailingEdge(w, time, "timer")

timerExpired(w, time) ==
  IF shouldInvoke(w.d, time) THEN trailingEdge(w, time, "timer")
  ELSE setTimeout(w, time, remainingWait(w.d, time))

leadingEdge(w, time) ==
  LET Started(v) == IF v.d.leading THEN invokeFunc(v, time, "call") ELSE v
  IN  Started(setTimeout([w EXCEPT !.d.lastInvokeTime = time], time, w.d.delay))

\* debounced(...args), called on thisArg at the given time
debouncedCall(w, args, thisArg, time) ==
  LET Body(v, isInvoking) ==
        IF isInvoking /\ v.d.timerId = Null THEN leadingEdge(v, time)
        ELSE IF isInvoking /\ v.d.hasMaxWait
          THEN invokeFunc(setTimeout(v, time, v.d.delay), time, "call")
        ELSE IF v.d.timerId = Null THEN setTimeout(v, time, v.d.delay)
        ELSE v
  IN  Body([w EXCEPT !.d.lastArgs = Some(args), !.d.lastThis = Some(thisArg),
                     !.d.lastCallTime = Some(time)],
           shouldInvoke(w.d, time))

\* debounced.cancel: clearTimeout(timerId), and the closure back to its first state
cancel(w) ==
  [w EXCEPT !.timers = {t \in @ : Some(t.id) # w.d.timerId /\ Some(t.id) # w.d.maxTimerId},
            !.d.lastInvokeTime = 0, !.d.lastArgs = Null, !.d.lastCallTime = Null,
            !.d.lastThis = Null, !.d.timerId = Null, !.d.maxTimerId = Null]

\* debounced.flush
flush(w, time) ==
  IF w.d.timerId = Null THEN w ELSE trailingEdge(w, time, "flush")

\* rateLimit(func, limit, period): the closure
rateLimit(limit, period) == [limit |-> limit, period |-> period, calls |-> <<>>]

\* the loop as it would be with < for <=: a call made exactly period before stays counted
RECURSIVE ShiftedLate(_, _, _)
ShiftedLate(calls, time, period) ==
  IF Len(calls) > 0 /\ calls[1] < time - period
    THEN ShiftedLate(Tail(calls), time, period)
    ELSE calls

\* the while loop of rateLimited: calls.shift() while calls[0] <= now - period
RECURSIVE Shifted(_, _, _)
Shifted(calls, time, period) ==
  IF Len(calls) > 0 /\ calls[1] <= time - period
    THEN Shifted(Tail(calls), time, period)
    ELSE calls

(***************************************************************************)
(* The steps of the timing functions                                       *)
(***************************************************************************)
MaxTime == 7
MaxCalls == 4

\* no timing function made: the state the other packages leave untouched
TimingIdle ==
  /\ now = 0
  /\ timers = {}
  /\ debounced = <<>>
  /\ rateLimited = <<>>
  /\ invocations = <<>>
  /\ callsMade = <<>>
  /\ returned = Null
  /\ helper = <<>>
  /\ emitter = <<>>
  /\ emitting = <<>>
  /\ localStorage = <<>>

World == [d |-> debounced, timers |-> timers, invocations |-> invocations]

\* the world and the value given back after a step of the debounced function
Becomes(w, value) ==
  /\ debounced' = w.d
  /\ timers' = w.timers
  /\ invocations' = w.invocations
  /\ returned' = value

\* whether a timeout is due
Due == \E t \in timers : t.due <= now

\* whether the host lets the caller run: when the clock reaches the time of a timeout
\* the host runs it before anything else, so the only timeouts that can be due while the
\* caller runs are those set at this very time
CallerRuns == \A t \in timers : t.due <= now => t.set = now

\* a millisecond passes; the host runs the timeouts that are due before that
Tick ==
  /\ fn \in {"debounce", "throttle", "rateLimit"}
  /\ now < MaxTime
  /\ ~Due
  /\ now' = now + 1
  /\ UNCHANGED <<timers, debounced, rateLimited, invocations, callsMade, returned, notTiming>>

\* the debounced (or throttled) function is called; its argument and its this are the
\* place of the call in the list of the uses made of the function
DebouncedCall ==
  /\ fn \in {"debounce", "throttle"}
  /\ Len(callsMade) < MaxCalls /\ CallerRuns
  /\ LET Called(w) == Becomes(w, w.d.result)
         Calling(n) == Called(debouncedCall(World, <<n>>, n, now))
     IN  Calling(Len(callsMade) + 1)
  /\ callsMade' = Append(callsMade, [op |-> "call", time |-> now])
  /\ UNCHANGED <<now, rateLimited, notTiming>>

\* the host runs the timeout that is due first: timerExpired
TimerExpired ==
  /\ fn \in {"debounce", "throttle"}
  /\ \E t \in timers :
       /\ t.due <= now
       /\ \A u \in timers : u.due > t.due \/ (u.due = t.due /\ u.id >= t.id)
       /\ LET Ran(w) == Becomes(w, returned)
          IN  Ran(timerExpired([World EXCEPT !.timers = @ \ {t}], now))
  /\ UNCHANGED <<now, rateLimited, callsMade, notTiming>>

Cancel ==
  /\ fn \in {"debounce", "throttle"}
  /\ Len(callsMade) < MaxCalls /\ CallerRuns
  /\ Becomes(cancel(World), Null)
  /\ callsMade' = Append(callsMade, [op |-> "cancel", time |-> now])
  /\ UNCHANGED <<now, rateLimited, notTiming>>

Flush ==
  /\ fn \in {"debounce", "throttle"}
  /\ Len(callsMade) < MaxCalls /\ CallerRuns
  /\ LET Flushed(w) == Becomes(w, w.d.result)
     IN  Flushed(flush(World, now))
  /\ callsMade' = Append(callsMade, [op |-> "flush", time |-> now])
  /\ UNCHANGED <<now, rateLimited, notTiming>>

\* rateLimited(...args): the quota is brought up to date, then func runs or the call
\* gives back undefined
RateLimited ==
  /\ fn = "rateLimit"
  /\ Len(callsMade) < MaxCalls /\ CallerRuns
  /\ LET Kept(calls, args, thisArg) ==
           IF Len(calls) < rateLimited.limit
             THEN /\ rateLimited' = [rateLimited EXCEPT !.calls = Append(calls, now)]
                  /\ invocations' = Append(invocations, [time |-> now, args |-> Some(args),
                                                         this |-> Some(thisArg), by |-> "call"])
                  /\ returned' = Some(args)
             ELSE /\ rateLimited' = [rateLimited EXCEPT !.calls = calls]
                  /\ invocations' = invocations
                  /\ returned' = Null
     IN  Kept(Shifted(rateLimited.calls, now, rateLimited.period),
              <<Len(callsMade) + 1>>, Len(callsMade) + 1)
  /\ callsMade' = Append(callsMade, [op |-> "call", time |-> now])
  /\ UNCHANGED <<now, timers, debounced, notTiming>>

\* a timing function has been made at time 0
Made(f, given, d, r) ==
  /\ fn = f
  /\ arg = None
  /\ options = given
  /\ text = <<>>
  /\ pc = "made"
  /\ stages = <<>>
  /\ result = None
  /\ now = 0
  /\ timers = {}
  /\ debounced = d
  /\ rateLimited = r
  /\ invocations = <<>>
  /\ callsMade = <<>>
  /\ returned = Null
  /\ helper = <<>>
  /\ emitter = <<>>
  /\ emitting = <<>>
  /\ localStorage = <<>>

(***************************************************************************)
(* LocalStorageHelper (@manufosela/local-storage-helper)                   *)
(*                                                                         *)
(* localStorage is a function from the keys it holds to their texts.  The  *)
(* text JSON.stringify writes for an item is kept as the tuple of its      *)
(* three fields; JsonLength is the length of the text itself.              *)
(***************************************************************************)
\* new LocalStorageHelper(options)
LocalStorageHelper(given) ==
  [_prefix |-> IF "prefix" \in DOMAIN given THEN given.prefix ELSE <<>>,
   _defaultTTL |-> IF "defaultTTL" \in DOMAIN given THEN given.defaultTTL ELSE 0]

_getKey(key) == helper._prefix \o key

\* JSON.stringify(item) and JSON.parse(raw)
stringify(item) == <<item.value, item.createdAt, item.expiry>>
parseItem(raw) == [value |-> raw[1], createdAt |-> raw[2], expiry |-> raw[3]]

\* the number of digits of n
RECURSIVE NumLen(_)
NumLen(n) == IF n < 10 THEN 1 ELSE 1 + NumLen(n \div 10)

\* the length of {"value":"...","createdAt":n,"expiry":n} (or "expiry":null)
JsonLength(raw) ==
  1 + Len(<<"\"","v","a","l","u","e","\"",":","\"">>) + Len(raw[1]) + Len(<<"\"",",","\"","c","r","e","a","t","e","d","A","t","\"",":">>) + NumLen(raw[2])
    + Len(<<",","\"","e","x","p","i","r","y","\"",":">>) + (IF raw[3] = Null THEN Len(<<"n","u","l","l">>) ELSE NumLen(raw[3][1]))
    + 1

\* _storage.setItem, _storage.removeItem
setItem(storage, key, raw) ==
  [k \in DOMAIN storage \cup {key} |-> IF k = key THEN raw ELSE storage[k]]
removeItem(storage, key) == [k \in DOMAIN storage \ {key} |-> storage[k]]

\* whether the item has an expiry that the clock has gone past
Expired(item, time) == item.expiry # Null /\ time > item.expiry[1]

\* keys(): the keys under the prefix, without it
keys(storage) ==
  {Slice(k, Len(helper._prefix) + 1, Len(k) + 1) :
     k \in {f \in DOMAIN storage : StartsWith(f, helper._prefix)}}

(***************************************************************************)
(* The steps of the helper                                                 *)
(***************************************************************************)
MaxAge == 3
MaxWrites == 3

\* what the last call of a method gave back, and when
Gave(op, key, value) == [op |-> op, key |-> key, value |-> value, time |-> now]

\* a call that writes, as it is kept in the list of the calls made
Wrote(op, key, value, ttl) ==
  callsMade' = Append(callsMade, [op |-> op, time |-> now, key |-> key,
                                  value |-> value, ttl |-> ttl])

\* set(key, value, ttl), ttl null for a call without it
StorageSet(key, value, ttl) ==
  /\ fn = "LocalStorageHelper" /\ Len(callsMade) < MaxWrites
  /\ LET Store(effectiveTTL) ==
           localStorage' =
             setItem(localStorage, _getKey(key),
                     stringify([value |-> value, createdAt |-> now,
                                expiry |-> IF effectiveTTL > 0 THEN Some(now + effectiveTTL)
                                           ELSE Null]))
     IN  Store(IF ttl # Null THEN ttl[1] ELSE helper._defaultTTL)
  /\ returned' = Gave("set", key, Null)
  /\ Wrote("set", key, value, ttl)
  /\ UNCHANGED <<now, helper, notStorage>>

\* get(key): what it leaves in the storage and what it gives back
get(storage, key, time) ==
  IF _getKey(key) \notin DOMAIN storage THEN [storage |-> storage, value |-> Null]
  ELSE IF Expired(parseItem(storage[_getKey(key)]), time)
    THEN [storage |-> removeItem(storage, _getKey(key)), value |-> Null]
  ELSE [storage |-> storage, value |-> Some(parseItem(storage[_getKey(key)]).value)]

StorageGet(key) ==
  /\ fn = "LocalStorageHelper"
  /\ LET Got(g) == localStorage' = g.storage /\ returned' = Gave("get", key, g.value)
     IN  Got(get(localStorage, key, now))
  /\ UNCHANGED <<now, helper, callsMade, notStorage>>

\* has(key)
StorageHas(key) ==
  /\ fn = "LocalStorageHelper"
  /\ LET Got(g) == localStorage' = g.storage /\ returned' = Gave("has", key, g.value # Null)
     IN  Got(get(localStorage, key, now))
  /\ UNCHANGED <<now, helper, callsMade, notStorage>>

\* remove(key)
StorageRemove(key) ==
  /\ fn = "LocalStorageHelper" /\ Len(callsMade) < MaxWrites
  /\ localStorage' = removeItem(localStorage, _getKey(key))
  /\ returned' = Gave("remove", key, Null)
  /\ Wrote("remove", key, Null, Null)
  /\ UNCHANGED <<now, helper, notStorage>>

\* clear()
StorageClear ==
  /\ fn = "LocalStorageHelper" /\ Len(callsMade) < MaxWrites
  /\ localStorage' = [k \in DOMAIN localStorage \ {_getKey(key) : key \in keys(localStorage)}
                        |-> localStorage[k]]
  /\ returned' = Gave("clear", <<>>, Null)
  /\ Wrote("clear", <<>>, Null, Null)
  /\ UNCHANGED <<now, helper, notStorage>>

\* keys(): the storage lists its keys in an order of its own
StorageKeys ==
  /\ fn = "LocalStorageHelper"
  /\ \E order \in [1..Cardinality(keys(localStorage)) -> keys(localStorage)] :
       /\ \A i, j \in DOMAIN order : i # j => order[i] # order[j]
       /\ returned' = Gave("keys", <<>>, order)
  /\ UNCHANGED <<now, helper, localStorage, callsMade, notStorage>>

\* getTTL(key)
StorageGetTTL(key) ==
  /\ fn = "LocalStorageHelper"
  /\ LET Remaining(item) ==
           IF item.expiry = Null THEN Null
           ELSE IF item.expiry[1] - now > 0 THEN Some(item.expiry[1] - now)
           ELSE Null
     IN  returned' = Gave("getTTL", key,
                          IF _getKey(key) \notin DOMAIN localStorage THEN Null
                          ELSE Remaining(parseItem(localStorage[_getKey(key)])))
  /\ UNCHANGED <<now, helper, localStorage, callsMade, notStorage>>

\* setTTL(key, ttl)
StorageSetTTL(key, ttl) ==
  /\ fn = "LocalStorageHelper" /\ Len(callsMade) < MaxWrites
  /\ IF _getKey(key) \notin DOMAIN localStorage
       THEN localStorage' = localStorage /\ returned' = Gave("setTTL", key, FALSE)
       ELSE /\ localStorage' =
                 setItem(localStorage, _getKey(key),
                         stringify([parseItem(localStorage[_getKey(key)]) EXCEPT
                                      !.expiry = IF ttl > 0 THEN Some(now + ttl) ELSE Null]))
            /\ returned' = Gave("setTTL", key, TRUE)
  /\ Wrote("setTTL", key, Null, Some(ttl))
  /\ UNCHANGED <<now, helper, notStorage>>

\* getSize()
RECURSIVE SumLengths(_, _)
SumLengths(storage, ks) ==
  IF ks = {} THEN 0
  ELSE LET k == CHOOSE k \in ks : TRUE
       IN  Len(k) + JsonLength(storage[k]) + SumLengths(storage, ks \ {k})

StorageGetSize ==
  /\ fn = "LocalStorageHelper"
  /\ LET Size(used, items) ==
           [used |-> used, available |-> Max({0, 5 * 1024 * 1024 - used}), items |-> items]
         Mine == {f \in DOMAIN localStorage : StartsWith(f, helper._prefix)}
     IN  returned' = Gave("getSize", <<>>, Size(SumLengths(localStorage, Mine), Cardinality(Mine)))
  /\ UNCHANGED <<now, helper, localStorage, callsMade, notStorage>>

\* a millisecond passes
StorageTick ==
  /\ fn = "LocalStorageHelper"
  /\ now < MaxAge
  /\ now' = now + 1
  /\ UNCHANGED <<helper, localStorage, callsMade, returned, notStorage>>

\* createStorage(namespace, options)
createStorage(namespace, given) ==
  LocalStorageHelper([prefix |-> namespace \o <<"_">>,
                      defaultTTL |-> IF "defaultTTL" \in DOMAIN given THEN given.defaultTTL
                                     ELSE 0])

\* a write that does not go through the helper, as it is kept in the list of the calls
\* made: under the key as the storage has it
WroteItem(by, key, value) ==
  callsMade' = Append(callsMade, [op |-> "setItem", time |-> now, key |-> key,
                                  value |-> value, by |-> by])

\* other.set(key, value) on another instance of the class, of another prefix
OtherSet(other, key, value) ==
  /\ fn = "LocalStorageHelper" /\ Len(callsMade) < MaxWrites
  /\ other._prefix # helper._prefix
  /\ localStorage' =
       setItem(localStorage, other._prefix \o key,
               stringify([value |-> value, createdAt |-> now,
                          expiry |-> IF other._defaultTTL > 0 THEN Some(now + other._defaultTTL)
                                     ELSE Null]))
  /\ WroteItem("instance", other._prefix \o key, value)
  /\ returned' = Gave("set", key, Null)
  /\ UNCHANGED <<now, helper, notStorage>>

\* localStorage.setItem(key, value) by the page itself
PageSetItem(key, value) ==
  /\ fn = "LocalStorageHelper" /\ Len(callsMade) < MaxWrites
  /\ localStorage' = setItem(localStorage, key,
                             stringify([value |-> value, createdAt |-> now, expiry |-> Null]))
  /\ WroteItem("page", key, value)
  /\ returned' = Gave("setItem", key, Null)
  /\ UNCHANGED <<now, helper, notStorage>>

(***************************************************************************)
(* EventEmitter (@manufosela/event-emitter)                                *)
(*                                                                         *)
(* A Map or a Set of JavaScript is the list of its entries in the order    *)
(* they were added, a deleted entry marked as not live and left in place:  *)
(* a for-of loop over it holds a position in the list, skips the entries   *)
(* deleted before it reaches them and visits those added meanwhile.  The   *)
(* Sets of listeners are numbered; _events maps an event to the number of  *)
(* its Set.  A listener is a callback, or the wrapper once makes for one   *)
(* (wrapper > 0, a serial number).                                         *)
(***************************************************************************)
\* new EventEmitter(options)
EventEmitter(given) ==
  [_events |-> <<>>, sets |-> <<>>,
   _maxListeners |-> IF "maxListeners" \in DOMAIN given THEN given.maxListeners ELSE 0,
   _wildcard |-> IF "wildcard" \in DOMAIN given THEN given.wildcard ELSE FALSE,
   _delimiter |-> ":"]

Callback(name) == [callback |-> name, wrapper |-> 0]
Wrapper(name, n) == [callback |-> name, wrapper |-> n]

\* this._events.get(event): the number of the Set, 0 for undefined
EventsGet(em, event) ==
  LET At1 == {i \in 1..Len(em._events) : em._events[i].live /\ em._events[i].key = event}
  IN  IF At1 = {} THEN 0 ELSE em._events[CHOOSE i \in At1 : TRUE].set

\* the places of the live entries of Set id, none for undefined
LivePlaces(em, id) ==
  IF id = 0 THEN {} ELSE {i \in 1..Len(em.sets[id]) : em.sets[id][i].live}

\* listeners.has(listener)
SetHas(em, id, listener) == \E i \in LivePlaces(em, id) : em.sets[id][i].fn = listener

\* listeners.add(listener)
SetAdd(em, id, listener) ==
  IF SetHas(em, id, listener) THEN em
  ELSE [em EXCEPT !.sets[id] = Append(@, [fn |-> listener, live |-> TRUE])]

\* listeners.delete(listener)
SetDelete(em, id, listener) ==
  [em EXCEPT !.sets[id] = [i \in 1..Len(@) |->
                             IF @[i].fn = listener THEN [@[i] EXCEPT !.live = FALSE] ELSE @[i]]]

\* this._events.delete(event)
EventsDelete(em, event) ==
  [em EXCEPT !._events = [i \in 1..Len(@) |->
                            IF @[i].key = event THEN [@[i] EXCEPT !.live = FALSE] ELSE @[i]]]

\* on(event, callback)
on(em, event, listener) ==
  LET Added(e) == SetAdd(e, EventsGet(e, event), listener)
  IN  Added(IF EventsGet(em, event) # 0 THEN em
            ELSE [em EXCEPT !.sets = Append(@, <<>>),
                            !._events = Append(@, [key |-> event, set |-> Len(em.sets) + 1,
                                                   live |-> TRUE])])

\* off(event, callback)
off(em, event, callback) ==
  LET Wrappers(id) ==
        {i \in LivePlaces(em, id) :
           /\ em.sets[id][i].fn.wrapper > 0 /\ callback.wrapper = 0
           /\ em.sets[id][i].fn.callback = callback.callback}
      Removed(id) ==
        IF SetHas(em, id, callback) THEN SetDelete(em, id, callback)
        ELSE IF Wrappers(id) # {} THEN SetDelete(em, id, em.sets[id][Min(Wrappers(id))].fn)
        ELSE em
      Cleaned(e, id) == IF LivePlaces(e, id) = {} THEN EventsDelete(e, event) ELSE e
      Of(id) == IF id = 0 THEN em ELSE Cleaned(Removed(id), id)
  IN  Of(EventsGet(em, event))

onceWrapperKeeps(em, event, listener) == em

\* the wrapper that once makes, up to its call of callback: this.off(event, wrapper)
onceWrapper(em, event, listener) == off(em, event, listener)

\* removeAllListeners(event)
removeAllListeners(em, event) ==
  IF event # <<>> THEN EventsDelete(em, event)
  ELSE [em EXCEPT !._events = [i \in 1..Len(@) |-> [@[i] EXCEPT !.live = FALSE]]]

\* the while loop of _matchWildcard, the indexes counted from 1
RECURSIVE MatchLoop(_, _, _, _)
MatchLoop(patternParts, eventParts, patternIdx, eventIdx) ==
  LET Skipped(nextPattern) ==
        Min({j \in eventIdx..Len(eventParts) : eventParts[j] = nextPattern}
            \cup {Len(eventParts) + 1})
  IN  IF patternIdx > Len(patternParts) \/ eventIdx > Len(eventParts)
        THEN patternIdx = Len(patternParts) + 1 /\ eventIdx = Len(eventParts) + 1
      ELSE IF patternParts[patternIdx] = <<"*","*">>
        THEN IF patternIdx = Len(patternParts) THEN TRUE
             ELSE MatchLoop(patternParts, eventParts, patternIdx + 1,
                            Skipped(patternParts[patternIdx + 1]))
      ELSE IF patternParts[patternIdx] = <<"*">>
                \/ patternParts[patternIdx] = eventParts[eventIdx]
        THEN MatchLoop(patternParts, eventParts, patternIdx + 1, eventIdx + 1)
      ELSE FALSE

_matchWildcard(em, pattern, event) ==
  IF ~Includes(pattern, <<"*">>) THEN FALSE
  ELSE IF pattern = <<"*","*">> THEN TRUE
  ELSE MatchLoop(SplitOn(pattern, em._delimiter), SplitOn(event, em._delimiter), 1, 1)

(***************************************************************************)
(* The steps of the emitter                                                *)
(*                                                                         *)
(* emitting holds the calls of emit that are running, the innermost last:     *)
(* an emit made by a callback runs to its end before the callback returns. *)
(* The callbacks of EmittingCallbacks emit again the event they are called *)
(* for; the others do nothing but get called.                              *)
(***************************************************************************)
MaxEmitterCalls == 4
MaxDepth == 2

EmittingCallbacks == {"g"}

\* a call of emit that starts: at the head of the direct listeners
Frame(em, event) ==
  [event |-> event, phase |-> "direct", key |-> event, set |-> EventsGet(em, event),
   pos |-> 0, mapPos |-> 0]

\* the call kept in the list of the calls made, with the number of invocations so far
MadeCall(op, event, listener) ==
  callsMade' = Append(callsMade, [op |-> op, event |-> event, listener |-> listener,
                                  seen |-> Len(invocations)])

\* a caller outside any listener may call the emitter
Outside == fn = "EventEmitter" /\ emitting = <<>> /\ Len(callsMade) < MaxEmitterCalls

On(event, name) ==
  /\ Outside
  /\ emitter' = on(emitter, event, Callback(name))
  /\ MadeCall("on", event, Callback(name))
  /\ UNCHANGED <<emitting, invocations, notEmitter>>

\* once(event, callback): a new wrapper, numbered by the calls made so far
Once(event, name) ==
  /\ Outside
  /\ emitter' = on(emitter, event, Wrapper(name, Len(callsMade) + 1))
  /\ MadeCall("once", event, Wrapper(name, Len(callsMade) + 1))
  /\ UNCHANGED <<emitting, invocations, notEmitter>>

Off(event, name) ==
  /\ Outside
  /\ emitter' = off(emitter, event, Callback(name))
  /\ MadeCall("off", event, Callback(name))
  /\ UNCHANGED <<emitting, invocations, notEmitter>>

\* the function that an earlier on or once gave back is called
Unsubscribe ==
  /\ Outside
  /\ \E k \in 1..Len(callsMade) :
       /\ callsMade[k].op \in {"on", "once"}
       /\ emitter' = off(emitter, callsMade[k].event, callsMade[k].listener)
       /\ MadeCall("unsubscribe", callsMade[k].event, callsMade[k].listener)
  /\ UNCHANGED <<emitting, invocations, notEmitter>>

RemoveAllListeners(event) ==
  /\ Outside
  /\ emitter' = removeAllListeners(emitter, event)
  /\ MadeCall("removeAllListeners", event, Callback(""))
  /\ UNCHANGED <<emitting, invocations, notEmitter>>

\* emit(event) is called from outside
Emit(event) ==
  /\ Outside
  /\ emitting' = <<Frame(emitter, event)>>
  /\ MadeCall("emit", event, Callback(""))
  /\ UNCHANGED <<emitter, invocations, notEmitter>>

\* the innermost emit calls its next listener: a wrapper takes itself off, the callback
\* is called, and a callback that emits starts an emit of the same event
Deliver ==
  /\ fn = "EventEmitter" /\ emitting # <<>>
  /\ LET frame == emitting[Len(emitting)]
         Places == {i \in LivePlaces(emitter, frame.set) : i > frame.pos}
         Called(listener, em, here) ==
           /\ emitter' = em
           /\ invocations' = Append(invocations,
                                    [event |-> frame.event, key |-> frame.key,
                                     listener |-> listener, depth |-> Len(emitting),
                                     present |-> EventsGet(em, frame.key) # 0
                                                 /\ SetHas(em, EventsGet(em, frame.key), listener)])
           /\ emitting' = IF listener.callback \in EmittingCallbacks /\ Len(emitting) < MaxDepth
                         THEN Append(here, Frame(em, frame.event))
                         ELSE here
         Calling(place, listener) ==
           Called(listener,
                  IF listener.wrapper > 0 THEN onceWrapper(emitter, frame.key, listener)
                  ELSE emitter,
                  [emitting EXCEPT ![Len(emitting)].pos = place])
     IN  /\ Places # {}
         /\ Calling(Min(Places), emitter.sets[frame.set][Min(Places)].fn)
  /\ UNCHANGED <<callsMade, notEmitter>>

\* the innermost emit is through with a Set: it goes on to the next pattern that matches
\* (_emitWildcard), or returns
Advance ==
  /\ fn = "EventEmitter" /\ emitting # <<>>
  /\ LET frame == emitting[Len(emitting)]
         Patterns ==
           {i \in 1..Len(emitter._events) :
              /\ i > frame.mapPos /\ emitter._events[i].live
              /\ emitter._events[i].key # frame.event
              /\ _matchWildcard(emitter, emitter._events[i].key, frame.event)}
     IN  /\ {i \in LivePlaces(emitter, frame.set) : i > frame.pos} = {}
         /\ emitting' = IF emitter._wildcard /\ Patterns # {}
                       THEN [emitting EXCEPT ![Len(emitting)] =
                               [frame EXCEPT !.phase = "wildcard",
                                             !.key = emitter._events[Min(Patterns)].key,
                                             !.set = emitter._events[Min(Patterns)].set,
                                             !.pos = 0, !.mapPos = Min(Patterns)]]
                       ELSE SubSeq(emitting, 1, Len(emitting) - 1)
  /\ UNCHANGED <<emitter, invocations, callsMade, notEmitter>>

(***************************************************************************)
(* Inputs                                                                  *)
(***************************************************************************)
\* the strings made of at most n of the tokens
RECURSIVE Strs(_, _)
Strs(tokens, n) ==
  IF n = 0 THEN {<<>>}
  ELSE LET shorter == Strs(tokens, n - 1)
       IN  shorter \cup {s \o t : s \in shorter, t \in tokens}

\* the arrays of at most n of the items
RECURSIVE Arrays(_, _)
Arrays(items, n) ==
  IF n = 0 THEN {<<>>}
  ELSE LET shorter == Arrays(items, n - 1)
       IN  shorter \cup {Append(a, x) : a \in shorter, x \in items}

\* a call about to be made
Call(f, a, o) ==
  /\ fn = f
  /\ arg = a
  /\ options = o
  /\ text = <<>>
  /\ pc = "call"
  /\ stages = <<>>
  /\ result = None
  /\ TimingIdle

\* the option objects that give some of the boolean options, each set to b or left out
OptionSets(names) ==
  UNION {[given -> BOOLEAN] : given \in SUBSET names}

MaxTokens == 2
MaxEntries == 3

\* a table of one header row, one separator row and one body row
SmallTable == <<"|","a","|","\n","|","-","|","\n","|","b","|">>

MixedTokens == { <<"#"," ","a">>, <<"\n">>, <<"*","b","*">>, <<"<","s","c","r","i","p","t",">">>, <<"\"","q","\"">>, <<"\r","\n">>, SmallTable }

TocItemsIn == {[level |-> n, text |-> <<"a","<">>, id |-> <<"a">>] : n \in 1..3}

\* the calls a behaviour may start with: <<function, argument, options>>
Calls ==
  {<<"parse", a, o>> :
     a \in NonStrings \cup {Arr(<<>>)} \cup {Str(s) : s \in Strs(MixedTokens, MaxTokens)},
     o \in OptionSets({"typographer", "sanitize", "tables"})}
  \cup
  {<<f, a, <<>>>> :
     f \in {"parseInline", "escape", "generateTOC"},
     a \in NonStrings \cup {Arr(<<>>)} \cup {Str(s) : s \in Strs(MixedTokens, MaxTokens)}}
  \cup
  {<<"renderTOC", a, <<>>>> :
     a \in NonStrings \cup {Str(<<>>)} \cup {Arr(t) : t \in Arrays(TocItemsIn, MaxEntries)}}

Init == \E c \in Calls : Call(c[1], c[2], c[3])

Spec == Init /\ [][Next]_vars

(***************************************************************************)
(* Helpers for stating the claims                                          *)
(***************************************************************************)
\* s.toLowerCase().includes(lit)
IncludesCI(s, lit) == \E j \in 1..Len(s) : HasAtCI(s, j, lit)

\* the number of places where lit stands in s
Count(s, lit) == Cardinality({j \in 1..Len(s) : HasAt(s, j, lit)})

\* the option object that gives headerIdPrefix, or nothing for the empty prefix
WithPrefix(key, p) == IF p = <<>> THEN <<>> ELSE [k \in {key} |-> p]

(***************************************************************************)
(* C1: the contents of code                                                *)
(***************************************************************************)
MaxCodeTokens == 2

CodeTokens ==
  { <<"a">>, <<"*","b","*">>, <<"_","c","_">>, <<"~","~","d","~","~">>, <<"#"," ","e">>, <<"-"," ","f">>, <<">"," ","g">>, <<"1","."," ","h">>, <<"|">>,
    <<"<">>, <<"h","t","t","p",":","/","/","i">>, <<"\n">> }

CodeContents == Strs(CodeTokens, MaxCodeTokens)

\* the contents an inline code span can hold: not empty, no line feed
SpanContents == {c \in CodeContents : c # <<>> /\ \A k \in 1..Len(c) : c[k] # NL}

Langs == {<<>>, <<"j","s">>}

\* a fenced code block: three backticks, the language, a line feed, the content,
\* a line feed, three backticks
Fenced(lang, c) == <<TICK,TICK,TICK>> \o lang \o <<NL>> \o c \o <<NL>> \o <<TICK,TICK,TICK>>

\* an inline code span
Span(c) == <<TICK>> \o c \o <<TICK>>

CodeInit ==
  \/ \E lang \in Langs, c \in CodeContents : Call("parse", Str(Fenced(lang, c)), <<>>)
  \/ \E c \in SpanContents : Call("parse", Str(Span(c)), <<>>)

CodeSpec == CodeInit /\ [][ParseNext]_vars

\* the text between the first <code...> tag and the first </code> after it
\* (<<"none">> when there is no such element)
CodeText(html) ==
  LET a == IndexOf(html, <<"<","c","o","d","e">>, 1)
      b == IF a = 0 THEN 0 ELSE IndexOf(html, <<">">>, a)
      c == IF b = 0 THEN 0 ELSE IndexOf(html, <<"<","/","c","o","d","e",">">>, b)
  IN  IF c = 0 THEN <<"none">> ELSE Slice(html, b + 1, c)

\* C1: in the final output of parse, the text of the code element of a fenced code
\* block is exactly the escaped, trimmed content of the block, and the text of the code
\* element of an inline code span is exactly its escaped content, whatever the content.
C1_CodeProtected ==
  fn = "parse" /\ pc = "done"
    => /\ \A lang \in Langs, c \in CodeContents :
            arg = Str(Fenced(lang, c)) => CodeText(result.val) = escapeHtml(trim(c))
       /\ \A c \in SpanContents :
            arg = Str(Span(c)) => CodeText(result.val) = escapeHtml(c)

(***************************************************************************)
(* C2: the id of a heading                                                 *)
(***************************************************************************)
MaxHeadingTokens == 2

HeadingTokens == { <<"a">>, <<"B">>, <<"1">>, <<" ">>, <<"_">>, <<"*">>, <<"!">>, <<"-">>, <<TICK,"c",TICK>> }

\* the single-line heading texts: not empty, no space at either end
HeadingTexts == {t \in Strs(HeadingTokens, MaxHeadingTokens) : t # <<>> /\ trim(t) = t}

Prefixes == {<<>>, <<"p","-">>}

\* '#' repeated n times, a space, the text
HeadingLine(n, t) == Repeat(<<"#">>, n) \o <<" ">> \o t

HeadingInit ==
  \E n \in 1..6, t \in HeadingTexts, p \in Prefixes :
    Call("parse", Str(HeadingLine(n, t)), WithPrefix("headerIdPrefix", p))

HeadingSpec == HeadingInit /\ [][ParseNext]_vars

\* C2: the final output of parse for a heading line of level n with text t under the
\* prefix p holds the opening tag <hn id="ID"> with ID exactly p followed by the slug
\* of t, and the closing tag </hn>.
C2_HeadingId ==
  fn = "parse" /\ pc = "done"
    => \A n \in 1..6, t \in HeadingTexts, p \in Prefixes :
         (arg = Str(HeadingLine(n, t)) /\ options = WithPrefix("headerIdPrefix", p))
           => /\ Includes(result.val, <<"<","h">> \o <<Digitchar(n)>> \o <<" ","i","d","=","\"">>
                                        \o p \o slugify(t, <<>>) \o <<"\"",">">>)
              /\ Includes(result.val, <<"<","/","h">> \o <<Digitchar(n)>> \o <<">">>)

(***************************************************************************)
(* C3: script elements                                                     *)
(***************************************************************************)
MaxScriptTokens == 3

ScriptTokens == { <<"<","s","c","r","i","p","t",">">>, <<"<","/","s","c","r","i","p","t",">">>, <<"<","s","c","r">>, <<"i","p","t",">">>, <<"a">>, <<" ">> }

ScriptInit ==
  \E s \in Strs(ScriptTokens, MaxScriptTokens), o \in OptionSets({"sanitize"}) :
    Call("parse", Str(s), o)

ScriptSpec == ScriptInit /\ [][ParseNext]_vars

\* C3 as claimed: with sanitize enabled, the output of parse never contains <script>.
C3_NoScriptTag ==
  fn = "parse" /\ pc = "done" /\ arg.type = "string" /\ opts.sanitize
    => ~Includes(result.val, <<"<","s","c","r","i","p","t",">">>)

\* whether s is made only of letters, digits, spaces and complete <script> and
\* </script> tags, each <script> followed by a </script> with no <script> between
ClosedScripts(s) ==
  LET Opens == {i \in 1..Len(s) : HasAt(s, i, <<"<","s","c","r","i","p","t",">">>)}
      Closes == {i \in 1..Len(s) : HasAt(s, i, <<"<","/","s","c","r","i","p","t",">">>)}
      InTag(i) == (\E o \in Opens : i \in o..(o + 7)) \/ (\E c \in Closes : i \in c..(c + 8))
  IN  /\ \A i \in 1..Len(s) :
           InTag(i) \/ s[i] = " " \/ (IsWord(s[i]) /\ s[i] # "_")
      /\ \A o \in Opens :
           \E c \in Closes : c > o /\ \A o2 \in Opens : ~(o < o2 /\ o2 < c)

\* C3 amended: with sanitize enabled, for an input made only of letters, digits, spaces
\* and complete <script> and </script> tags in which every <script> is followed by a
\* </script> with no other <script> between them, the output of parse does not
\* contain <script>.
C3_ClosedScriptsRemoved ==
  fn = "parse" /\ pc = "done" /\ arg.type = "string" /\ opts.sanitize
    /\ ClosedScripts(arg.val)
    => ~Includes(result.val, <<"<","s","c","r","i","p","t",">">>)

\* C3 witness: parse has ended, sanitize enabled, on an input of closed script
\* elements that holds a script element and text around it
C3_Witness ==
  /\ fn = "parse" /\ pc = "done" /\ opts.sanitize
  /\ arg = Str(<<"a","<","s","c","r","i","p","t",">","<","/","s","c","r","i","p","t",">">>)
  /\ ClosedScripts(arg.val)
  /\ result = Str(<<"<","p",">","a","<","/","p",">">>)

(***************************************************************************)
(* C4, C6, C7: links, images and bare URLs                                 *)
(***************************************************************************)
\* [text](url) or [text](url "title")
Link(t, u, title) ==
  <<"[">> \o t \o <<"]","(">> \o u
    \o (IF title = <<>> THEN <<>> ELSE <<" ","\"">> \o title \o <<"\"">>) \o <<")">>

\* ![alt](url)
Image(alt, u) == <<"!","[">> \o alt \o <<"]","(">> \o u \o <<")">>

ScriptUrls == { <<"j","a","v","a","s","c","r","i","p","t",":","x">>, <<"J","a","v","a","S","c","r","i","p","t",":","x">> }
PlainUrls == { <<"h","t","t","p",":","/","/","y">>, <<"a","_","b","_","c">>, <<"x","*","y","*","z">>, <<"a","&","b">> }
LinkTexts == { <<"a">>, <<"h","t","t","p",":","/","/","x">> }
Titles == { <<>>, <<"T">> }
BareTexts == { <<"h","t","t","p",":","/","/","x">>, <<"s","e","e"," ","h","t","t","p",":","/","/","x"," ","n","o","w">> }

LinkInputs ==
  {Link(t, u, title) : t \in LinkTexts, u \in PlainUrls \cup ScriptUrls, title \in Titles}
  \cup {Image(<<"a">>, u) : u \in PlainUrls \cup ScriptUrls}
  \cup BareTexts

LinkInit ==
  \E f \in {"parse", "parseInline"}, s \in LinkInputs,
     o \in OptionSets({"linkify", "typographer", "breaks"}) :
    Call(f, Str(s), o)

LinkSpec == LinkInit /\ [][ParseNext \/ ParseInline]_vars

\* C4: with sanitize enabled and whatever the other options, the output of parse and
\* of parseInline for a link or an image whose URL begins with javascript: (in any
\* letter case) gives the href or src the value # and holds javascript: nowhere (the
\* link texts hold none, so it could only stand in an attribute value).
C4_ScriptUrlsRewritten ==
  fn \in {"parse", "parseInline"} /\ pc = "done" /\ opts.sanitize
    => \A u \in ScriptUrls :
         /\ \A t \in LinkTexts, title \in Titles :
              arg = Str(Link(t, u, title))
                => /\ Includes(result.val, <<"h","r","e","f","=","\"","#","\"">>)
                   /\ ~IncludesCI(result.val, <<"j","a","v","a","s","c","r","i","p","t",":">>)
         /\ arg = Str(Image(<<"a">>, u))
              => /\ Includes(result.val, <<"s","r","c","=","\"","#","\"">>)
                 /\ ~IncludesCI(result.val, <<"j","a","v","a","s","c","r","i","p","t",":">>)

\* C6: for a link whose url has no whitespace and no ), the output of parse holds
\* <a href="U">text</a>, with title="T" when a title is given, U exactly the escaped
\* url and T exactly the escaped title.  (Stated for calls that leave the typographer
\* off and for a link text that is no URL: what those do is the subject of C4 and C7.)
C6_LinkTargetKept ==
  fn = "parse" /\ pc = "done" /\ ~opts.typographer
    => \A u \in PlainUrls, title \in Titles :
         arg = Str(Link(<<"a">>, u, title))
           => Includes(result.val,
                <<"<","a"," ","h","r","e","f","=","\"">> \o escapeHtml(u) \o <<"\"">>
                  \o (IF title = <<>> THEN <<>>
                      ELSE <<" ","t","i","t","l","e","=","\"">> \o escapeHtml(title) \o <<"\"">>)
                  \o <<">","a","<","/","a",">">>)

\* whether no <a> element of html begins inside another
NoNestedAnchor(html) ==
  LET Opens == {i \in 1..Len(html) : HasAt(html, i, <<"<","a"," ">>)}
      Closes == {i \in 1..Len(html) : HasAt(html, i, <<"<","/","a",">">>)}
  IN  \A i, j \in Opens : i < j => \E c \in Closes : i < c /\ c < j

\* C7: the output never holds an <a> inside another <a>; a bare URL in running text is
\* wrapped in exactly one <a href="URL">URL</a> when linkify is enabled and in none
\* when it is not.  (Stated for calls that leave the typographer off.)
C7_AutolinkOnce ==
  fn \in {"parse", "parseInline"} /\ pc = "done" /\ ~opts.typographer
    => /\ NoNestedAnchor(result.val)
       /\ \A b \in BareTexts :
            arg = Str(b)
              => IF opts.linkify
                   THEN /\ Count(result.val, <<"<","a"," ","h","r","e","f","=","\"","h","t","t","p",":","/","/","x","\"",">","h","t","t","p",":","/","/","x","<","/","a",">">>) = 1
                        /\ Count(result.val, <<"<","a"," ">>) = 1
                   ELSE Count(result.val, <<"<","a"," ">>) = 0

(***************************************************************************)
(* C5: the order of the stages of parse                                    *)
(***************************************************************************)
\* the order the specification gives for the stages
StageOrder ==
  <<"normalize", "codeBlocks", "tables", "headers", "blockquotes", "horizontalRules",
    "lists", "linksAndImages", "emphasis", "typographer", "paragraphs", "sanitize", "trim">>

\* the stages of StageOrder that come before position p and that the options o enable
StagesBefore(p, o) ==
  LET Runs(st) == (st = "typographer" => o.typographer) /\ (st = "sanitize" => o.sanitize)
      n == IF p = "done" THEN Len(StageOrder)
           ELSE (CHOOSE k \in 1..Len(StageOrder) : StageOrder[k] = p) - 1
  IN  FilterSeq(SubSeq(StageOrder, 1, n), Runs)

\* C5: a call of parse on a string has run, at every point, exactly the enabled
\* stages that precede that point in the specified order, each once (so at its end all
\* of them, in order, a disabled optional stage left out), and the tables stage
\* leaves the text as it is when the option tables is false.
C5_StagesInOrder ==
  /\ [](fn = "parse" /\ arg.type = "string" /\ pc # "call"
          => stages = StagesBefore(pc, opts))
  /\ [][fn = "parse" /\ pc = "tables" /\ ~opts.tables => text' = text]_vars

\* C5 witness: a call of parse on a table has ended with typographer left out,
\* sanitize run and tables switched off, and no table element has been made
C5_Witness ==
  /\ fn = "parse" /\ arg = Str(SmallTable) /\ pc = "done"
  /\ ~opts.typographer /\ opts.sanitize /\ ~opts.tables
  /\ Len(stages) = 12
  /\ ~Includes(result.val, <<"<","t","a","b","l","e",">">>)

(***************************************************************************)
(* C8, C9: the table of contents                                           *)
(***************************************************************************)
MaxLines == 2

\* the lines of the documents: ATX headings of a level and a text, and plain text
\* (level 0)
TocLines ==
  {[level |-> n, text |-> t] : n \in {1, 2, 3, 4, 6}, t \in { <<"a">>, <<"B"," ","c">> }}
  \cup {[level |-> 0, text |-> <<"d">>]}

LineText(l) == IF l.level = 0 THEN l.text ELSE HeadingLine(l.level, l.text)

\* the documents of at most MaxLines lines
TocDocs == Arrays(TocLines, MaxLines)

DocText(d) == Join([k \in 1..Len(d) |-> LineText(d[k])], <<NL>>)

\* the options of generateTOC: maxLevel 0..6 or absent, prefix absent or given
TocOptions ==
  {<<>>, [prefix |-> <<"p","-">>]}
  \cup {[maxLevel |-> m] : m \in 0..6}
  \cup {[maxLevel |-> m, prefix |-> <<"p","-">>] : m \in 0..6}

TocInit ==
  \/ \E d \in TocDocs, o \in TocOptions : Call("generateTOC", Str(DocText(d)), o)
  \/ \E t \in Arrays(TocItemsIn, MaxEntries) : Call("renderTOC", Arr(t), <<>>)

TocSpec == TocInit /\ [][GenerateTOC \/ RenderTOC]_vars

\* the tags of html in order, as <<name, "open" or "close">>
TagsOf(html) ==
  LET TagMatch(s, i) == IF s[i] = "<" THEN IndexOf(s, <<">">>, i) + 1 ELSE 0
      found == MatchesOf(html, TagMatch)
      Tag(m) ==
        LET closing == html[m[1] + 1] = "/"
            from == IF closing THEN m[1] + 2 ELSE m[1] + 1
        IN  <<Slice(html, from, RunEnd(html, from, IsWord)),
              IF closing THEN "close" ELSE "open">>
  IN  [k \in 1..Len(found) |-> Tag(found[k])]

\* whether the tags from the k-th on close the open elements of the stack, each
\* closing tag closing the element opened last
RECURSIVE Balanced(_, _, _)
Balanced(tags, k, stack) ==
  IF k > Len(tags) THEN stack = <<>>
  ELSE IF tags[k][2] = "open" THEN Balanced(tags, k + 1, Append(stack, tags[k][1]))
  ELSE /\ stack # <<>>
       /\ stack[Len(stack)] = tags[k][1]
       /\ Balanced(tags, k + 1, SubSeq(stack, 1, Len(stack) - 1))

WellNested(html) == Balanced(TagsOf(html), 1, <<>>)

\* the list item renderTOC writes for an entry
EntryHtml(e) ==
  <<"<","l","i",">","<","a"," ","h","r","e","f","=","\"","#">> \o e.id \o <<"\"",">">> \o escapeHtml(e.text) \o <<"<","/","a",">">>

\* the list items of html, in order: each from <li> to the first </a>
ItemsOf(html) ==
  LET ItemMatch(s, i) ==
        IF HasAt(s, i, <<"<","l","i",">">>) /\ IndexOf(s, <<"<","/","a",">">>, i) # 0
          THEN IndexOf(s, <<"<","/","a",">">>, i) + 4 ELSE 0
      found == MatchesOf(html, ItemMatch)
  IN  [k \in 1..Len(found) |-> Slice(html, found[k][1], found[k][2])]

\* C8: for an array of entries, renderTOC returns a string without raising; the empty
\* array gives the empty string; otherwise the string is one <nav class="toc"> in
\* which every <ul> and <li> opened is closed, last opened first closed, and which
\* holds exactly one list item per entry, in the order of the entries.
C8_TocWellNested ==
  fn = "renderTOC" /\ pc = "done" /\ arg.type = "array"
    => /\ result.type = "string"
       /\ arg.val = <<>> => result.val = <<>>
       /\ arg.val # <<>>
            => /\ StartsWith(result.val, <<"<","n","a","v"," ","c","l","a","s","s","=","\"","t","o","c","\"",">","<","u","l",">">>)
               /\ Count(result.val, <<"<","n","a","v">>) = 1
               /\ WellNested(result.val)
               /\ ItemsOf(result.val) = [k \in 1..Len(arg.val) |-> EntryHtml(arg.val[k])]

\* the entries the claim gives for the document d under the options o
ExpectedToc(d, o) ==
  LET maxLevel == IF "maxLevel" \in DOMAIN o THEN o.maxLevel ELSE 3
      prefix == IF "prefix" \in DOMAIN o THEN o.prefix ELSE <<>>
      Listed(l) == l.level >= 1 /\ l.level <= maxLevel
      kept == FilterSeq(d, Listed)
  IN  [k \in 1..Len(kept) |->
         [level |-> kept[k].level, text |-> trim(kept[k].text),
          id |-> slugify(trim(kept[k].text), prefix)]]

\* C9: generateTOC returns exactly one entry per ATX heading line of level <= maxLevel
\* (3 when the option is absent), in document order, each with the level, the trimmed
\* text and the slug of the text under the prefix; headings of the same text get the
\* same id.
C9_TocEntries ==
  fn = "generateTOC" /\ pc = "done"
    => \A d \in TocDocs :
         arg = Str(DocText(d)) => result = Arr(ExpectedToc(d, options))

(***************************************************************************)
(* C10: the type errors                                                    *)
(***************************************************************************)
\* whether the function takes the argument: an array for renderTOC, a string for the rest
Accepts(f, a) == IF f = "renderTOC" THEN a.type = "array" ELSE a.type = "string"

\* whether the value is an error raised for the type of the argument
IsTypeError(v) ==
  /\ v.type = "error"
  /\ v.val \in { <<"M","a","r","k","d","o","w","n"," ","i","n","p","u","t"," ","m","u","s","t"," ","b","e"," ","a"," ","s","t","r","i","n","g">>, <<"T","e","x","t"," ","i","n","p","u","t"," ","m","u","s","t"," ","b","e"," ","a"," ","s","t","r","i","n","g">>,
                  <<"T","O","C"," ","m","u","s","t"," ","b","e"," ","a","n"," ","a","r","r","a","y">> }

\* C10: each of the five functions raises an error for an argument of the wrong type
\* before any stage has run or any text has been produced, raises no such error for an
\* argument of the right type, and parse('') returns ''.
C10_TypeErrorsFirst ==
  /\ ~Accepts(fn, arg)
       => /\ pc \in {"call", "done"}
          /\ stages = <<>>
          /\ text = <<>>
          /\ pc = "done" => IsTypeError(result)
  /\ Accepts(fn, arg) /\ pc = "done" => ~IsTypeError(result)
  /\ fn = "parse" /\ arg = Str(<<>>) /\ pc = "done" => result = Str(<<>>)

\* C10 witness: parse has been called with a number and has ended with the error,
\* no stage run
C10_Witness ==
  /\ fn = "parse" /\ arg.type = "number" /\ pc = "done"
  /\ IsTypeError(result) /\ stages = <<>>


(***************************************************************************)
(* C11, C12: tables                                                        *)
(***************************************************************************)
MaxRows == 2
TableColumns == 2

\* the separator cells: centre, right, left, and no colon
Separators == { <<":","-",":">>, <<"-",":">>, <<":","-">>, <<"-","-","-">> }

\* the text of the header cell of column i
HeaderText(i) == <<UpperLetters[i]>>

\* the texts a body cell of column i may hold: a letter, or nothing but a space
BodyTexts(i) == { <<LowerLetters[i]>>, <<" ">> }

\* a table: the separator cell of every column and the cell texts of every body row
TableDocs ==
  LET Texts == UNION {BodyTexts(i) : i \in 1..TableColumns}
      Rows == {r \in [1..TableColumns -> Texts] : \A i \in 1..TableColumns : r[i] \in BodyTexts(i)}
  IN  {[seps |-> s, rows |-> b] :
         s \in [1..TableColumns -> Separators],
         b \in Arrays(Rows, MaxRows) \ {<<>>}}

\* | c1 | c2 |
TableRow(cells) ==
  <<"|">> \o Concat([i \in 1..Len(cells) |-> <<" ">> \o cells[i] \o <<" ","|">>])

TableText(t) ==
  Join(<<TableRow([i \in 1..TableColumns |-> HeaderText(i)]),
         <<"|">> \o Concat([i \in 1..TableColumns |-> t.seps[i] \o <<"|">>])>>
         \o [r \in 1..Len(t.rows) |-> TableRow(t.rows[r])],
       <<NL>>)

TableInit == \E t \in TableDocs : Call("parse", Str(TableText(t)), <<>>)

TableSpec == TableInit /\ [][ParseNext]_vars

\* the alignment a separator cell stands for
SepAlign(sep) ==
  CASE sep = <<":","-",":">> -> <<"c","e","n","t","e","r">>
    [] sep = <<"-",":">> -> <<"r","i","g","h","t">>
    [] OTHER -> <<"l","e","f","t">>

\* a cell that carries the alignment
AlignedCell(tag, align, content) ==
  <<"<">> \o tag \o <<" ","s","t","y","l","e","=","\"","t","e","x","t","-","a","l","i","g","n",":"," ">> \o align \o <<"\"",">">> \o trim(content)
    \o <<"<","/">> \o tag \o <<">">>

\* C11: in the output of parse for a table, the header cell of every column and
\* the cell of that column in every body row, empty cells included, carry the
\* text-align of the column's separator cell.
C11_CellAlignment ==
  fn = "parse" /\ pc = "done"
    => \A t \in TableDocs :
         arg = Str(TableText(t))
           => \A i \in 1..TableColumns :
                /\ Includes(result.val,
                            AlignedCell(<<"t","h">>, SepAlign(t.seps[i]), HeaderText(i)))
                /\ \A r \in 1..Len(t.rows) :
                     Includes(result.val,
                              AlignedCell(<<"t","d">>, SepAlign(t.seps[i]), t.rows[r][i]))

\* C12: for a table whose separator cells carry no colon, parse renders <table>,
\* <thead> and <tbody> with bare <th> and <td> cells, no attribute on them.
C12_BareCells ==
  fn = "parse" /\ pc = "done"
    => \A t \in TableDocs :
         arg = Str(TableText(t)) /\ (\A i \in 1..TableColumns : t.seps[i] = <<"-","-","-">>)
           => /\ Includes(result.val, <<"<","t","a","b","l","e",">">>)
              /\ Includes(result.val, <<"<","t","h","e","a","d",">">>)
              /\ Includes(result.val, <<"<","t","b","o","d","y",">">>)
              /\ Includes(result.val, <<"<","t","h",">">>)
              /\ Includes(result.val, <<"<","t","d",">">>)
              /\ ~Includes(result.val, <<"<","t","h"," ">>)
              /\ ~Includes(result.val, <<"<","t","d"," ">>)

(***************************************************************************)
(* C13: plain text                                                         *)
(***************************************************************************)
MaxPlainTokens == 4

\* letters, the space and the line feed
PlainTokens == { <<"a">>, <<"b">>, <<" ">>, <<"\n">> }

PlainInit == \E s \in Strs(PlainTokens, MaxPlainTokens) : Call("parse", Str(s), <<>>)

PlainSpec == PlainInit /\ [][ParseNext]_vars

\* letters, spaces and line feeds only, no two line feeds in a row
IsPlain(s) ==
  /\ \A i \in 1..Len(s) : s[i] \in {"a", "b", " ", NL}
  /\ ~Includes(s, <<NL, NL>>)

\* C13 as stated: for every plain input, the empty and the whitespace-only string
\* included, parse(x) is <p> + trim(x) + </p>.
C13_PlainRoundTrip ==
  fn = "parse" /\ pc = "done" /\ IsPlain(arg.val)
    => result = Str(<<"<","p",">">> \o trim(arg.val) \o <<"<","/","p",">">>)

\* C13 amended: for every plain input that holds a letter, parse(x) is
\* <p> + trim(x) + </p>; for the empty and the whitespace-only string it is ''.
C13_PlainParagraph ==
  fn = "parse" /\ pc = "done" /\ IsPlain(arg.val)
    => result = Str(IF trim(arg.val) = <<>> THEN <<>>
                    ELSE <<"<","p",">">> \o trim(arg.val) \o <<"<","/","p",">">>)

\* C13 witness: parse has ended on two words around a line feed, with white space
\* at the end
C13_Witness ==
  /\ fn = "parse" /\ pc = "done"
  /\ arg = Str(<<"a","\n","b"," ">>)
  /\ result = Str(<<"<","p",">","a","\n","b","<","/","p",">">>)

(***************************************************************************)
(* C14: escape                                                             *)
(***************************************************************************)
MaxEscapeLen == 3

\* the five characters, a letter, and the characters entities are made of
EscapeChars == {"&", "<", ">", "\"", "'", "a", ";"}

EscapeInit ==
  \E s \in Strs({<<c>> : c \in EscapeChars}, MaxEscapeLen) : Call("escape", Str(s), <<>>)

EscapeSpec == EscapeInit /\ [][Escape]_vars

\* the table of the five characters
Entity(c) ==
  IF c = "&" THEN <<"&","a","m","p",";">>
  ELSE IF c = "<" THEN <<"&","l","t",";">>
  ELSE IF c = ">" THEN <<"&","g","t",";">>
  ELSE IF c = "\"" THEN <<"&","q","u","o","t",";">>
  ELSE IF c = "'" THEN <<"&","#","3","9",";">>
  ELSE <<c>>

\* the image of x, character by character
EntityImage(x) == Concat([i \in 1..Len(x) |-> Entity(x[i])])

\* C14: escape(x) is the character-by-character image of x under the table, nothing
\* escaped twice in one call, and escaping the result again changes it exactly when
\* x holds one of the five characters.
C14_EscapeImage ==
  fn = "escape" /\ pc = "done" /\ arg.type = "string"
    => /\ result = Str(EntityImage(arg.val))
       /\ escapeHtml(result.val) # result.val
            <=> \E i \in 1..Len(arg.val) : arg.val[i] \in {"&", "<", ">", "\"", "'"}

\* C14 witness: escape has returned for an input with an ampersand and a character
\* whose entity holds one
C14_Witness ==
  /\ fn = "escape" /\ pc = "done"
  /\ arg = Str(<<"&","<","a">>)
  /\ result = Str(<<"&","a","m","p",";","&","l","t",";","a">>)

(***************************************************************************)
(* C15: throttle                                                           *)
(***************************************************************************)
\* the limits and delays tried, in milliseconds
Waits == {2, 3}

ThrottleInit ==
  \E limit \in Waits, given \in OptionSets({"leading", "trailing"}) :
    Made("throttle", given, throttle(limit, given), <<>>)

ThrottleNext == DebouncedCall \/ TimerExpired \/ Tick \/ Cancel \/ Flush

ThrottleSpec == ThrottleInit /\ [][ThrottleNext]_vars

\* C15: as long as cancel has not been called, any two invocations of func that the
\* throttled function makes on its own, not through flush, are at least limit
\* milliseconds apart.
C15_OncePerLimit ==
  fn = "throttle" /\ (\A k \in 1..Len(callsMade) : callsMade[k].op # "cancel")
    => \A i, j \in 1..Len(invocations) :
         i < j /\ invocations[i].by # "flush" /\ invocations[j].by # "flush"
           => invocations[j].time - invocations[i].time >= debounced.delay

(***************************************************************************)
(* C16: debounce                                                           *)
(***************************************************************************)
\* the delays tried: the default 0 and the waits
Delays == {0} \cup Waits

DebounceInit == \E delay \in Delays : Made("debounce", <<>>, debounce(delay, <<>>), <<>>)

DebounceNext == DebouncedCall \/ TimerExpired \/ Tick \/ Cancel \/ Flush

DebounceSpec == DebounceInit /\ [][DebounceNext]_vars

\* nothing but calls has been made of the function: no cancel, no flush
OnlyCalls == \A k \in 1..Len(callsMade) : callsMade[k].op = "call"

\* whether call k is the last of its burst: no call follows it by less than delay
EndsBurst(k) ==
  k = Len(callsMade) \/ callsMade[k + 1].time - callsMade[k].time >= debounced.delay

\* the invocations of func made with the arguments of call k
InvocationsOf(k) == {i \in 1..Len(invocations) : invocations[i].args = Some(<<k>>)}

\* every burst that is over has its one invocation, delay after its last call and with
\* the arguments and the this of that call, and there is no other invocation
BurstsInvoked ==
  /\ \A k \in 1..Len(callsMade) :
       EndsBurst(k) /\ (k < Len(callsMade) \/ now > callsMade[k].time + debounced.delay)
         => Cardinality(InvocationsOf(k)) = 1
  /\ \A i \in 1..Len(invocations) :
       \E k \in 1..Len(callsMade) :
         /\ EndsBurst(k)
         /\ InvocationsOf(k) = {i}
         /\ invocations[i].this = Some(k)
         /\ invocations[i].time = callsMade[k].time + debounced.delay

\* func is invoked only when delay has passed since the latest call
InvokedAfterDelay ==
  invocations' # invocations
    => /\ callsMade' # <<>>
       /\ now' - callsMade'[Len(callsMade')].time >= debounced.delay

Limits == {1, 2}

RateInit ==
  \E limit \in Limits, period \in Waits :
    Made("rateLimit", <<>>, <<>>, rateLimit(limit, period))

RateNext == RateLimited \/ Tick

RateSpec == RateInit /\ [][RateNext]_vars

\* the invocations of func made from time s on and before s + period
InWindow(s) ==
  {i \in 1..Len(invocations) :
     s <= invocations[i].time /\ invocations[i].time < s + rateLimited.period}

\* what a call of the rate-limited function does: a refused call (one that gives back
\* undefined) neither invokes func nor adds to the calls counted, an accepted one invokes
\* func once, and a call is accepted when no call is counted any more or period has
\* passed since the oldest one counted
CallRefusedOrAccepted ==
  callsMade' # callsMade
    => /\ returned' = Null
            => /\ invocations' = invocations
               /\ Len(rateLimited'.calls) <= Len(rateLimited.calls)
       /\ returned' # Null => Len(invocations') = Len(invocations) + 1
       /\ (rateLimited.calls = <<>> \/ now >= rateLimited.calls[1] + rateLimited.period)
            => returned' # Null

\* C17: for rateLimit with limit >= 1 and period > 0, func is invoked at most limit
\* times in every window of length period; a refused call gives back undefined, does not
\* invoke func and uses up no quota; and a call made once period has passed since the
\* oldest counted call is accepted.
C17_QuotaPerPeriod ==
  /\ [](fn = "rateLimit"
          => \A s \in 0..now : Cardinality(InWindow(s)) <= rateLimited.limit)
  /\ [][fn = "rateLimit" => CallRefusedOrAccepted]_vars

\* C17 witness: with a quota of 1 per 2 ms, a call accepted, one refused 1 ms later,
\* and one accepted when 2 ms have passed since the first
C17_Witness ==
  /\ fn = "rateLimit" /\ rateLimited.limit = 1 /\ rateLimited.period = 2
  /\ Len(callsMade) = 3
  /\ callsMade[1].time = 0 /\ callsMade[2].time = 1 /\ callsMade[3].time = 2
  /\ Len(invocations) = 2 /\ invocations[2].time = 2
  /\ returned = Some(<<3>>)

(***************************************************************************)
(* C18: expiry in LocalStorageHelper                                       *)
(***************************************************************************)
StorageKeyNames == { <<"a">> }
StorageValues == { <<"v">> }
\* the ttl given to set: none, 0, 1 ms
SetTtls == {Null, Some(0), Some(1)}
\* the ttl given to setTTL
NewTtls == {0, 2}

StorageInit ==
  \E defaultTTL \in {0, 1} :
    /\ fn = "LocalStorageHelper"
    /\ arg = None
    /\ options = [prefix |-> <<"p","_">>, defaultTTL |-> defaultTTL]
    /\ text = <<>>
    /\ pc = "made"
    /\ stages = <<>>
    /\ result = None
    /\ now = 0
    /\ timers = {}
    /\ debounced = <<>>
    /\ rateLimited = <<>>
    /\ invocations = <<>>
    /\ callsMade = <<>>
    /\ returned = Gave("new", <<>>, Null)
    /\ helper = LocalStorageHelper([prefix |-> <<"p","_">>, defaultTTL |-> defaultTTL])
    /\ emitter = <<>>
    /\ emitting = <<>>
    /\ localStorage = [k \in { <<"o","t","h","e","r">> } |-> stringify([value |-> <<"x">>, createdAt |-> 0,
                                                           expiry |-> Null])]

StorageNext ==
  \/ \E key \in StorageKeyNames, value \in StorageValues, ttl \in SetTtls :
       StorageSet(key, value, ttl)
  \/ \E key \in StorageKeyNames : StorageGet(key)
  \/ \E key \in StorageKeyNames : StorageHas(key)
  \/ \E key \in StorageKeyNames : StorageRemove(key)
  \/ StorageClear
  \/ StorageKeys
  \/ \E key \in StorageKeyNames : StorageGetTTL(key)
  \/ \E key \in StorageKeyNames, ttl \in NewTtls : StorageSetTTL(key, ttl)
  \/ StorageGetSize
  \/ StorageTick

StorageSpec == StorageInit /\ [][StorageNext]_vars

\* What the calls made so far leave under the key, as C18 has it: <<>> for nothing,
\* else <<the value set, the expiry in force>>.  set writes the item, with the ttl given
\* or else defaultTTL, an expiry only for a positive ttl; setTTL moves the expiry of an
\* item whose expiry has not passed, and leaves alone one whose expiry has passed;
\* remove and clear take the item away.
RECURSIVE Stored(_, _, _)
Stored(calls, n, key) ==
  LET After(call, before) ==
        IF call.op = "clear" \/ (call.op = "remove" /\ call.key = key) THEN <<>>
        ELSE IF call.op = "set" /\ call.key = key
          THEN LET Ttl(t) == <<call.value, IF t > 0 THEN Some(call.time + t) ELSE Null>>
               IN  Ttl(IF call.ttl # Null THEN call.ttl[1] ELSE helper._defaultTTL)
        ELSE IF call.op = "setTTL" /\ call.key = key /\ before # <<>>
                /\ ~(before[2] # Null /\ call.time > before[2][1])
          THEN <<before[1], IF call.ttl[1] > 0 THEN Some(call.time + call.ttl[1]) ELSE Null>>
        ELSE before
  IN  IF n = 0 THEN <<>> ELSE After(calls[n], Stored(calls, n - 1, key))

\* what get has to give back at the given time
Expected(calls, key, time) ==
  LET Of(item) ==
        IF item = <<>> THEN Null
        ELSE IF item[2] # Null /\ time > item[2][1] THEN Null
        ELSE Some(item[1])
  IN  Of(Stored(calls, Len(calls), key))

\* C18: get gives back the value set while its expiry has not passed, and null once it
\* has passed, after any get, has, getTTL, setTTL, keys and getSize, until the key is
\* set again; has is false exactly when get gives null; a ttl of 0 given to set
\* overrides defaultTTL and the item never expires.
C18_ExpiredStaysExpired ==
  /\ fn = "LocalStorageHelper" /\ returned.op = "get"
       => returned.value = Expected(callsMade, returned.key, returned.time)
  /\ fn = "LocalStorageHelper" /\ returned.op = "has"
       => returned.value = (Expected(callsMade, returned.key, returned.time) # Null)

(***************************************************************************)
(* C19: wildcard patterns                                                  *)
(***************************************************************************)
WildcardPatterns == { <<"a",":","b">>, <<"a",":","*">>, <<"*">>, <<"*","*">>, <<"a",":","*","*">>, <<"*","*",":","b">> }
WildcardEvents == { <<"a">>, <<"a",":","b">>, <<"b",":","b">> }

\* the state after new EventEmitter(given)
Constructed(given) ==
  /\ fn = "EventEmitter"
  /\ arg = None
  /\ options = given
  /\ text = <<>>
  /\ pc = "made"
  /\ stages = <<>>
  /\ result = None
  /\ now = 0
  /\ timers = {}
  /\ debounced = <<>>
  /\ rateLimited = <<>>
  /\ invocations = <<>>
  /\ callsMade = <<>>
  /\ returned = Null
  /\ helper = <<>>
  /\ localStorage = <<>>
  /\ emitter = EventEmitter(given)
  /\ emitting = <<>>

WildcardInit == \E wildcard \in BOOLEAN : Constructed([wildcard |-> wildcard])

WildcardNext ==
  \/ \E event \in WildcardPatterns : On(event, "f")
  \/ \E event \in WildcardPatterns : Off(event, "f")
  \/ \E event \in WildcardEvents : Emit(event)
  \/ Deliver
  \/ Advance

WildcardSpec == WildcardInit /\ [][WildcardNext]_vars

\* whether the segments of a pattern match the segments of an event: a literal the
\* equal segment, * one segment, ** any number of segments
RECURSIVE SegmentsMatch(_, _)
SegmentsMatch(patternParts, eventParts) ==
  IF patternParts = <<>> THEN eventParts = <<>>
  ELSE IF Head(patternParts) = <<"*","*">>
    THEN \E k \in 0..Len(eventParts) :
           SegmentsMatch(Tail(patternParts), SubSeq(eventParts, k + 1, Len(eventParts)))
  ELSE /\ eventParts # <<>>
       /\ Head(patternParts) = <<"*">> \/ Head(patternParts) = Head(eventParts)
       /\ SegmentsMatch(Tail(patternParts), Tail(eventParts))

PatternMatches(pattern, event) ==
  \/ pattern = event
  \/ /\ \E i \in 1..Len(SplitOn(pattern, ":")) : SplitOn(pattern, ":")[i] \in { <<"*">>, <<"*","*">> }
     /\ SegmentsMatch(SplitOn(pattern, ":"), SplitOn(event, ":"))

\* the calls of a listener of a pattern that the emit made last has made
CallsBy(key, listener) ==
  {j \in (callsMade[Len(callsMade)].seen + 1)..Len(invocations) :
     invocations[j].key = key /\ invocations[j].listener = listener}

\* C19: with wildcard enabled, when an emit has returned, each listener has been called
\* once if the pattern it is registered on matches the event segment by segment (a
\* literal the equal segment, * one segment, ** any number of segments, and a pattern
\* without wildcard the equal event only), and has not been called otherwise.
C19_CalledIffMatches ==
  (/\ fn = "EventEmitter" /\ emitter._wildcard /\ emitting = <<>>
   /\ callsMade # <<>> /\ callsMade[Len(callsMade)].op = "emit")
    => \A i \in 1..Len(emitter._events) :
         emitter._events[i].live
           => \A p \in LivePlaces(emitter, emitter._events[i].set) :
                Cardinality(CallsBy(emitter._events[i].key,
                                    emitter.sets[emitter._events[i].set][p].fn))
                  = IF PatternMatches(emitter._events[i].key, callsMade[Len(callsMade)].event)
                      THEN 1 ELSE 0

(***************************************************************************)
(* C20: once                                                               *)
(***************************************************************************)
OnceEvent == <<"e">>
OnceCallbacks == {"f", "g"}

OnceInit == \E wildcard \in BOOLEAN : Constructed([wildcard |-> wildcard])

OnceNext ==
  \/ \E name \in OnceCallbacks : On(OnceEvent, name)
  \/ \E name \in OnceCallbacks : Once(OnceEvent, name)
  \/ \E name \in OnceCallbacks : Off(OnceEvent, name)
  \/ Unsubscribe
  \/ \E event \in {OnceEvent, <<>>} : RemoveAllListeners(event)
  \/ Emit(OnceEvent)
  \/ Deliver
  \/ Advance

OnceSpec == OnceInit /\ [][OnceNext]_vars

\* no wrapper made by once is called twice
OnceAtMostOnce ==
  \A i, j \in 1..Len(invocations) :
    (i < j /\ invocations[i].listener.wrapper > 0)
      => invocations[i].listener # invocations[j].listener

\* when the callback given to once is called, its wrapper is registered no more
OnceRemovedFirst ==
  \A i \in 1..Len(invocations) :
    invocations[i].listener.wrapper > 0 => ~invocations[i].present

\* the m-th call takes back the once of the k-th call before an emit of the event
TakesBack(k, m) ==
  /\ k < m
  /\ callsMade[k].op = "once"
  /\ \/ callsMade[m].op = "unsubscribe" /\ callsMade[m].listener = callsMade[k].listener
     \/ /\ callsMade[m].op = "off" /\ callsMade[m].event = callsMade[k].event
        /\ callsMade[m].listener = Callback(callsMade[k].listener.callback)
  /\ \A n \in (k + 1)..(m - 1) :
       ~(callsMade[n].op = "emit" /\ callsMade[n].event = callsMade[k].event)

NeverInvoked(k) ==
  \A i \in 1..Len(invocations) : invocations[i].listener # callsMade[k].listener

\* the callback of the once of the k-th call is registered on the event by no other
\* call before the m-th
SoleRegistration(k, m) ==
  \A n \in 1..(m - 1) :
    (/\ n # k /\ callsMade[n].op \in {"on", "once"}
     /\ callsMade[n].event = callsMade[k].event)
      => callsMade[n].listener.callback # callsMade[k].listener.callback

\* C20 as stated: a listener registered with once is called at most once over any emits,
\* those made from inside a listener included, it is removed before its callback runs,
\* and the unsubscribe function or off(event, cb) called before the first emit keeps it
\* from ever being called.
C20_OnceTakenBack ==
  fn = "EventEmitter"
    => /\ OnceAtMostOnce
       /\ OnceRemovedFirst
       /\ \A k, m \in 1..Len(callsMade) : TakesBack(k, m) => NeverInvoked(k)

\* C20, amended: the same, where off(event, cb) is held to keep the listener from being
\* called only if cb has been registered on the event by no other call of on or once.
C20_OnceTakenBackSole ==
  fn = "EventEmitter"
    => /\ OnceAtMostOnce
       /\ OnceRemovedFirst
       /\ \A k, m \in 1..Len(callsMade) :
            (/\ TakesBack(k, m)
             /\ callsMade[m].op = "off" => SoleRegistration(k, m))
              => NeverInvoked(k)

\* a wrapper made by once has been called by an emit made from inside a listener, and
\* a second emit has returned after it
C20_Witness ==
  /\ fn = "EventEmitter" /\ emitting = <<>>
  /\ \E i \in 1..Len(invocations) :
       /\ invocations[i].listener.wrapper > 0 /\ invocations[i].depth = 2
       /\ \E n \in 1..Len(callsMade) : callsMade[n].op = "emit" /\ callsMade[n].seen >= i

(***************************************************************************)
(* C21: clear                                                              *)
(***************************************************************************)
\* the prefixes of the instances: none, a prefix, and the one createStorage('p') makes
ClearPrefixes == {<<>>, <<"p">>, createStorage(<<"p">>, <<>>)._prefix}

ClearInit ==
  \E prefix \in ClearPrefixes :
    /\ fn = "LocalStorageHelper"
    /\ arg = None
    /\ options = [prefix |-> prefix]
    /\ text = <<>>
    /\ pc = "made"
    /\ stages = <<>>
    /\ result = None
    /\ now = 0
    /\ timers = {}
    /\ debounced = <<>>
    /\ rateLimited = <<>>
    /\ invocations = <<>>
    /\ callsMade = <<>>
    /\ returned = Gave("new", <<>>, Null)
    /\ helper = LocalStorageHelper([prefix |-> prefix])
    /\ emitter = <<>>
    /\ emitting = <<>>
    /\ localStorage = <<>>

ClearNext ==
  \/ \E key \in StorageKeyNames, value \in StorageValues : StorageSet(key, value, Null)
  \/ \E key \in StorageKeyNames : StorageRemove(key)
  \/ StorageClear
  \/ \E prefix \in ClearPrefixes, key \in StorageKeyNames :
       OtherSet(LocalStorageHelper([prefix |-> prefix]), key, <<"w">>)
  \/ PageSetItem(<<"o","t","h","e","r">>, <<"x">>)

ClearSpec == ClearInit /\ [][ClearNext]_vars

\* What the first n calls leave in the storage, as C21 has it: for each key of the
\* storage the value written last and whether it was written through the instance.
\* clear removes the keys written through the instance and no other.
RECURSIVE Left(_, _, _)
Left(calls, n, prefix) ==
  IF n = 0 THEN <<>>
  ELSE LET before == Left(calls, n - 1, prefix)
           call == calls[n]
           Put(key, mine) ==
             [k \in DOMAIN before \cup {key} |->
                IF k = key THEN [value |-> call.value, mine |-> mine] ELSE before[k]]
       IN  IF call.op = "set" THEN Put(prefix \o call.key, TRUE)
           ELSE IF call.op = "setItem" THEN Put(call.key, FALSE)
           ELSE IF call.op = "remove"
             THEN [k \in DOMAIN before \ {prefix \o call.key} |-> before[k]]
           ELSE [k \in {f \in DOMAIN before : ~before[f].mine} |-> before[k]]

\* C21: clear removes every key written through the instance and leaves every other
\* entry of the storage as it was: after any calls the storage holds the keys and the
\* values that are left when each clear has removed just the keys written through the
\* instance.
C21_ClearOwnKeysOnly ==
  fn = "LocalStorageHelper"
    => LET left == Left(callsMade, Len(callsMade), helper._prefix)
       IN  /\ DOMAIN localStorage = DOMAIN left
           /\ \A k \in DOMAIN left : parseItem(localStorage[k]).value = left[k].value

(***************************************************************************)
(* C22: flush                                                              *)
(***************************************************************************)
FlushInit == DebounceInit \/ ThrottleInit

FlushNext == DebouncedCall \/ TimerExpired \/ Tick \/ Cancel \/ Flush

FlushSpec == FlushInit /\ [][FlushNext]_vars

\* the calls made of the function itself
CallsOf == {k \in 1..Len(callsMade) : callsMade[k].op = "call"}

\* whether func has been invoked for the k-th use of the function, a call
InvokedFor(k) == \E i \in 1..Len(invocations) : invocations[i].args = Some(<<k>>)

\* a trailing call is pending: the last call has not been invoked yet, and no cancel
\* has dropped it
PendingTrailing ==
  /\ debounced.trailing
  /\ CallsOf # {}
  /\ ~InvokedFor(Max(CallsOf))
  /\ \A k \in 1..Len(callsMade) : k > Max(CallsOf) => callsMade[k].op # "cancel"

\* what func gave back last, func giving back its arguments
LastResult == IF invocations = <<>> THEN Null ELSE invocations[Len(invocations)].args

\* a step that is a call of flush
FlushStep == callsMade' = Append(callsMade, [op |-> "flush", time |-> now])

FlushInvokesPending ==
  (FlushStep /\ PendingTrailing)
    => /\ invocations' = Append(invocations, [time |-> now, args |-> Some(<<Max(CallsOf)>>),
                                              this |-> Some(Max(CallsOf)), by |-> "flush"])
       /\ returned' = Some(<<Max(CallsOf)>>)

FlushWithoutPending ==
  (FlushStep /\ ~PendingTrailing)
    => invocations' = invocations /\ returned' = LastResult

\* no call that flush has invoked is invoked again
FlushedOnce ==
  \A i, j \in 1..Len(invocations) :
    (i # j /\ invocations[i].by = "flush") => invocations[j].args # invocations[i].args

\* C22: flush with a trailing call pending invokes func at once, one time, with the
\* arguments of the last call, and gives back what func gave back; no timer that fires
\* later invokes the flushed call again, whatever calls are made meanwhile; flush with
\* nothing pending invokes nothing and gives back the last result.
C22_FlushInvokesOnce ==
  /\ [](fn \in {"debounce", "throttle"} => FlushedOnce)
  /\ [][FlushInvokesPending /\ FlushWithoutPending]_vars

\* a call has been flushed, another call has been made after it, and the timer set
\* before the flush has fired since
C22_Witness ==
  /\ fn \in {"debounce", "throttle"}
  /\ \E i, j \in 1..Len(invocations) :
       /\ i < j /\ invocations[i].by = "flush" /\ invocations[j].by = "timer"
       /\ invocations[j].time > invocations[i].time
  /\ timers = {}

(***************************************************************************)
(* C23: the markup a stage emits and the stages after it                   *)
(***************************************************************************)
MaxMarkupTokens == 3

\* lines that make a heading, a table, a list item, a rule or a Setext underline, and
\* inline text with an underscore pair, a link and a bare URL; none holds < or >
MarkupTokens ==
  { <<"#"," ","a">>, <<"\n">>, <<"=","=","=">>, <<"-","-","-">>, <<"-"," ","b">>, SmallTable, <<"_","c","_"," ","d","_">>, <<"[","e","]","(","f",")">>,
    <<"h","t","t","p",":","/","/","g">> }

MarkupInit ==
  \E s \in Strs(MarkupTokens, MaxMarkupTokens), o \in OptionSets({"typographer"}) :
    Call("parse", Str(s), o)

MarkupSpec == MarkupInit /\ [][ParseNext]_vars

\* the tags of html, each from its < to its >
TagTexts(html) ==
  LET TagMatch(s, i) == IF s[i] = "<" THEN IndexOf(s, <<">">>, i) + 1 ELSE 0
      Texts(found) == {Slice(html, found[k][1], found[k][2]) : k \in 1..Len(found)}
  IN  Texts(MatchesOf(html, TagMatch))

\* whether some line of html holds the opening tags of two headings
HeadingInHeading(html) ==
  \E k \in 1..Len(SplitOn(html, NL)) : Count(SplitOn(html, NL)[k], <<" ","i","d","=","\"">>) > 1

\* C23: no stage of parse takes the markup an earlier stage or rule has emitted for its
\* input: for an input without < and >, every tag that stands in the text before a stage
\* stands in the text after it, character for character, and no heading line is made
\* into the text of another heading.
C23_MarkupKept ==
  /\ [](fn = "parse" => ~HeadingInHeading(text))
  /\ [][(fn = "parse" /\ pc \notin {"call", "done"})
          => \A tag \in TagTexts(text) : Includes(text', tag)]_vars

(***************************************************************************)
(* C24: paragraphs between other constructs                                *)
(***************************************************************************)
\* what may stand before or after the block of plain text: nothing, a paragraph, a
\* heading, a horizontal rule, a table, a list, a blockquote, a code block
Constructs ==
  { <<>>, <<"y">>, <<"#"," ","a">>, <<"-","-","-">>, SmallTable, <<"-"," ","b">>, <<">"," ","q">>, Fenced(<<>>, <<"c">>) }

\* the blocks of plain text, of one line and of two
PlainBlocks == { <<"x">>, <<"x","\n","z">> }

\* the blank lines between two blocks: one or two
BlankLines == { <<"\n","\n">>, <<"\n","\n","\n">> }

\* the document: the construct before, the block, the construct after, blank lines
\* between them
BlockDoc(before, block, after, blank) ==
  (IF before = <<>> THEN <<>> ELSE before \o blank) \o block
    \o (IF after = <<>> THEN <<>> ELSE blank \o after)

ParagraphInit ==
  \E before \in Constructs, after \in Constructs, block \in PlainBlocks,
     blank \in BlankLines, o \in OptionSets({"breaks"}) :
    Call("parse", Str(BlockDoc(before, block, after, blank)), o)

ParagraphSpec == ParagraphInit /\ [][ParseNext]_vars

\* the paragraph of a block: each line feed a <br> and the line feed with breaks
WrappedBlock(block, breaks) ==
  <<"<","p",">">> \o (IF breaks THEN ReplaceLiteral(block, <<NL>>, <<"<","b","r",">","\n">>) ELSE block) \o <<"<","/","p",">">>

\* C24: a block of plain text set apart by blank lines is wrapped in one <p>...</p> in
\* the output of parse, whatever construct stands before or after it, each line feed in
\* it a <br> with breaks enabled.
C24_BlockWrapped ==
  fn = "parse" /\ pc = "done"
    => \A before \in Constructs, after \in Constructs, block \in PlainBlocks,
          blank \in BlankLines :
         arg = Str(BlockDoc(before, block, after, blank))
           => Count(result.val, WrappedBlock(block, opts.breaks)) = 1

(***************************************************************************)
(* C25: the lists                                                          *)
(***************************************************************************)
MaxListLines == 4

\* the lines tried: <<the line, what the list stage makes of it, its kind>>
ListLines ==
  { <<<<"-"," ","a">>, <<"<","l","i",">","a","<","/","l","i",">">>, "item">>,
    <<<<"*"," ","b">>, <<"<","l","i",">","b","<","/","l","i",">">>, "item">>,
    <<<<" "," ","+"," ","c">>, <<" "," ","<","l","i",">","c","<","/","l","i",">">>, "item">>,
    <<<<"1","."," ","d">>, <<"<","l","i",">","d","<","/","l","i",">">>, "item">>,
    <<<<"-"," ","[","x","]"," ","e">>, <<"<","l","i"," ","c","l","a","s","s","=","\"","t","a","s","k","-","l","i","s","t","-","i","t","e","m","\"",">","<","i","n","p","u","t"," ","t","y","p","e","=","\"","c","h","e","c","k","b","o","x","\""," ","c","h","e","c","k","e","d"," ","d","i","s","a","b","l","e","d",">"," ","e","<","/","l","i",">">>,
      "task">>,
    <<<<"x">>, <<"x">>, "text">>,
    <<<<>>, <<>>, "text">> }

\* the documents of one to MaxListLines of the lines
ListDocs ==
  {Join([k \in 1..Len(ls) |-> ls[k][1]], <<NL>>) :
     ls \in Arrays(ListLines, MaxListLines) \ {<<>>}}

ListInit == \E doc \in ListDocs : Call("parse", Str(doc), <<>>)

ListSpec == ListInit /\ [][ParseNext]_vars

LineOf(line) == CHOOSE t \in ListLines : t[1] = line

\* the lines the list stage has to give for the lines from the k-th on, inList telling
\* whether the line before is an item: an opener before the first item of a run, chosen
\* by that item, and </ul> after the last
RECURSIVE ListedLines(_, _, _)
ListedLines(lines, k, inList) ==
  IF k > Len(lines) THEN (IF inList THEN <<<<"<","/","u","l",">">>>> ELSE <<>>)
  ELSE LET t == LineOf(lines[k])
           Opener == IF t[3] = "task" THEN <<"<","u","l"," ","c","l","a","s","s","=","\"","t","a","s","k","-","l","i","s","t","\"",">">> ELSE <<"<","u","l",">">>
       IN  (IF t[3] = "text" /\ inList THEN <<<<"<","/","u","l",">">>>>
            ELSE IF t[3] # "text" /\ ~inList THEN <<Opener>>
            ELSE <<>>)
             \o <<t[2]>> \o ListedLines(lines, k + 1, t[3] # "text")

MaxQuoteLines == 4

\* the lines tried: quoted with one space, without, with two, a marker alone, a quote
\* in a quote, and a line of text, a blank line and an indented marker, which start no
\* quote
QuoteLinesIn == { <<">"," ","a">>, <<">","b">>, <<">"," "," ","c">>, <<">">>, <<">",">"," ","d">>, <<"x">>, <<>>, <<" ",">"," ","e">> }

QuoteDocs ==
  {Join(ls, <<NL>>) : ls \in Arrays(QuoteLinesIn, MaxQuoteLines) \ {<<>>}}

QuoteInit == \E doc \in QuoteDocs : Call("parse", Str(doc), <<>>)

QuoteSpec == QuoteInit /\ [][ParseNext]_vars

\* a line that starts with >, without the > and without the one space after it
Unquoted(line) ==
  IF Len(line) >= 2 /\ line[2] = " " THEN SubSeq(line, 3, Len(line))
  ELSE SubSeq(line, 2, Len(line))

\* the lines the stage has to give for the lines from the k-th on, inside telling
\* whether the line before starts with >
RECURSIVE BlockquotedLines(_, _, _)
BlockquotedLines(lines, k, inside) ==
  IF k > Len(lines) THEN (IF inside THEN <<<<"<","/","b","l","o","c","k","q","u","o","t","e",">">>>> ELSE <<>>)
  ELSE IF lines[k] # <<>> /\ lines[k][1] = ">"
    THEN (IF inside THEN <<>> ELSE <<<<"<","b","l","o","c","k","q","u","o","t","e",">">>>>)
           \o <<Unquoted(lines[k])>> \o BlockquotedLines(lines, k + 1, TRUE)
  ELSE (IF inside THEN <<<<"<","/","b","l","o","c","k","q","u","o","t","e",">">>>> ELSE <<>>)
         \o <<lines[k]>> \o BlockquotedLines(lines, k + 1, FALSE)

\* C26: the blockquote stage puts one <blockquote> line before and one </blockquote>
\* line after each maximal run of consecutive lines that start with >, takes the > and
\* at most one space after it from each line of the run, closes the last run at the end
\* of the input and leaves every other line as it is; no blockquote opens in another.
C26_QuoteRuns ==
  [][(fn = "parse" /\ pc = "blockquotes")
       => text' = Join(BlockquotedLines(SplitOn(text, NL), 1, FALSE), <<NL>>)]_vars

\* the stage has run on two runs with a blank line between them, the second ending the
\* input
C26_Witness ==
  /\ fn = "parse" /\ pc = "horizontalRules"
  /\ arg = Str(<<">"," "," ","c","\n",">",">"," ","d","\n","\n",">","b">>)
  /\ Count(text, <<"<","b","l","o","c","k","q","u","o","t","e",">">>) = 2 /\ Count(text, <<"<","/","b","l","o","c","k","q","u","o","t","e",">">>) = 2

(***************************************************************************)
(* C27: the horizontal rules                                               *)
(***************************************************************************)
MaxRuleLines == 3

\* the lines tried: rules of each character, one longer, one with a space after it, a
\* line of two dashes, lines that mix the characters, a line of text and a blank line
RuleLinesIn ==
  { <<"-","-","-">>, <<"*","*","*">>, <<"_","_","_">>, <<"-","-","-","-">>, <<"-","-","-"," ">>, <<"-","-">>, <<"-","*","-">>, <<"*","_","*">>, <<"x">>, <<>> }

RuleDocs ==
  {Join(ls, <<NL>>) : ls \in Arrays(RuleLinesIn, MaxRuleLines) \ {<<>>}}

RuleInit == \E doc \in RuleDocs : Call("parse", Str(doc), <<>>)

RuleSpec == RuleInit /\ [][ParseNext]_vars

\* whether the line is three or more of one of the characters -, *, _, with nothing but
\* spaces after them
IsRuleLine(line) ==
  \E n \in 3..Len(line) :
    /\ line[1] \in {"-", "*", "_"}
    /\ \A k \in 1..n : line[k] = line[1]
    /\ \A k \in (n + 1)..Len(line) : line[k] = " "

\* the lines with <hr> for each rule
RuledLines(lines) == [k \in 1..Len(lines) |-> IF IsRuleLine(lines[k]) THEN <<"<","h","r",">">> ELSE lines[k]]

\* C27: the horizontal-rule stage makes <hr> of a line if and only if the line is three
\* or more of one single character among -, *, _ with at most spaces after them; every
\* other line, one that mixes the characters and a blank line before or after a rule
\* too, is after the stage as it was before.
C27_UniformRules ==
  [][(fn = "parse" /\ pc = "horizontalRules")
       => text' = Join(RuledLines(SplitOn(text, NL)), <<NL>>)]_vars

(***************************************************************************)
(* C28: the table of contents against the headings of the document         *)
(***************************************************************************)
MaxSections == 2

\* the pieces of the documents: headings of a level whose text is plain, has an
\* underscore, emphasis or inline code, a fenced code block with a # line in it, and a
\* line of text
SectionsIn ==
  {HeadingLine(n, t) : n \in {1, 2, 4, 6},
                       t \in { <<"a">>, <<"B"," ","c">>, <<"a","_","b">>, <<"*","a","*">>, <<TICK,"c",TICK>>, <<"_">> }}
  \cup {Fenced(<<>>, <<"#"," ","a">>), <<"d">>}

SectionDocs == {Join(ls, <<NL>>) : ls \in Arrays(SectionsIn, MaxSections) \ {<<>>}}

SectionInit ==
  \E doc \in SectionDocs, p \in Prefixes :
    \/ Call("parse", Str(doc), WithPrefix("headerIdPrefix", p))
    \/ Call("generateTOC", Str(doc), [maxLevel |-> 6, prefix |-> p])

SectionNext == ParseNext \/ GenerateTOC

SectionSpec == SectionInit /\ [][SectionNext]_vars

\* the heading elements of html in order, as <<level, id>>: each <hN id="..."> tag
HeadingsOf(html) ==
  LET Levels(c) == {n \in 1..6 : Digitchar(n) = c}
      HeadMatch(s, i) ==
        IF /\ HasAt(s, i, <<"<","h">>) /\ i + 2 <= Len(s) /\ Levels(s[i + 2]) # {}
           /\ HasAt(s, i + 3, <<" ","i","d","=","\"">>) /\ IndexOf(s, <<"\"">>, i + 8) # 0
          THEN IndexOf(s, <<"\"">>, i + 8) + 1 ELSE 0
      found == MatchesOf(html, HeadMatch)
  IN  [k \in 1..Len(found) |->
         <<CHOOSE n \in Levels(html[found[k][1] + 2]) : TRUE,
           Slice(html, found[k][1] + 8, found[k][2] - 1)>>]

\* the entries of a table of contents as <<level, id>>
EntriesOf(toc) == [k \in 1..Len(toc) |-> <<toc[k].level, toc[k].id>>]

\* C28: the entries of generateTOC(md, {maxLevel: 6, prefix: p}) are, one for one and
\* in order, the heading elements of parse(md, {headerIdPrefix: p}), each with the level
\* and the id of its element; so every #id of the table is the id of a heading of the
\* parsed document.
C28_TocMatchesHeadings ==
  fn = "parse" /\ pc = "done"
    => HeadingsOf(result.val)
         = EntriesOf(generateTOC(arg.val, [maxLevel |-> 6, prefix |-> opts.headerIdPrefix]))

(***************************************************************************)
(* C29: parse and parseInline on a line of inline constructs               *)
(***************************************************************************)
\* the inline constructs: inline code, emphasis, strong emphasis, strikethrough, a
\* link, an image, a bare URL
InlineConstructs ==
  { <<TICK,"c",TICK>>, <<"*","a","*">>, <<"*","*","b","*","*">>, <<"~","~","d","~","~">>, <<"[","t","]","(","u",")">>, <<"!","[","i","]","(","s",")">>, <<"h","t","t","p",":","/","/","e">> }

\* the single lines: one construct, or two with a space between them
InlineTexts ==
  InlineConstructs \cup {a \o <<" ">> \o b : a \in InlineConstructs, b \in InlineConstructs}

InlineInit ==
  \E f \in {"parse", "parseInline"}, x \in InlineTexts,
     o \in OptionSets({"sanitize", "typographer", "linkify"}) :
    Call(f, Str(x), o)

InlineSpec == InlineInit /\ [][ParseNext \/ ParseInline]_vars

\* the names of the block-level elements
BlockElements ==
  { <<"p">>, <<"h","1">>, <<"h","2">>, <<"h","3">>, <<"h","4">>, <<"h","5">>, <<"h","6">>, <<"u","l">>, <<"o","l">>, <<"l","i">>,
    <<"b","l","o","c","k","q","u","o","t","e">>, <<"p","r","e">>, <<"t","a","b","l","e">>, <<"h","r">>, <<"d","i","v">> }

\* C29: for a single line x of inline constructs and any options, parse(x, options) is
\* <p>, then parseInline(x, options), then </p>; and the output of parseInline holds no
\* block-level tag and no paragraph wrapper.
C29_ParseWrapsInline ==
  /\ fn = "parse" /\ pc = "done"
       => result.val = <<"<","p",">">> \o parseInline(arg.val, opts) \o <<"<","/","p",">">>
  /\ fn = "parseInline" /\ pc = "done"
       => \A k \in 1..Len(TagsOf(result.val)) : TagsOf(result.val)[k][1] \notin BlockElements

(***************************************************************************)
(* C30: the nesting of the output                                          *)
(***************************************************************************)
MaxConstructs == 2

\* the well-formed constructs: nested emphasis, emphasis and strikethrough, a
\* blockquote and a fenced code block with a blank line in them, lists, a table, a link
WellFormedIn ==
  { <<"*","*","*","x","*","*","*">>, <<"*","*","b","*","*"," ","*","a","*"," ","~","~","d","~","~">>, <<">"," ","a","\n",">","\n",">"," ","b">>, Fenced(<<>>, <<"a","\n","\n","b">>),
    Fenced(<<"j","s">>, <<"a">>), <<"-"," ","a","\n","-"," ","b">>, <<"1","."," ","a","\n","2","."," ","b">>, SmallTable, <<"[","t","]","(","u",")">>, <<"x">> }

WellFormedDocs ==
  {Join(cs, <<NL, NL>>) : cs \in Arrays(WellFormedIn, MaxConstructs) \ {<<>>}}

WellFormedInit ==
  \E doc \in WellFormedDocs, o \in OptionSets({"breaks"}) : Call("parse", Str(doc), o)

WellFormedSpec == WellFormedInit /\ [][ParseNext]_vars

\* C30: the output of parse for a document of well-formed constructs is well nested:
\* every tag opened is closed, and each closing tag closes the element opened last.
C30_OutputWellNested ==
  fn = "parse" /\ pc = "done" => WellNested(result.val)
=============================================================================
